---- MODULE Spec2Model ----
(***************************************************************************)
(* Cycle-level model of the cocotb bus-functional models of this           *)
(* repository: the AXI4-Lite writer and reader (axilite.py), the           *)
(* AXI4-Stream writer and reader (axis.py) and the AXI memory responder    *)
(* (mem.py, with wait_n_cycles of tb.py).                                  *)
(*                                                                         *)
(* Time.  Every coroutine suspends only in "yield RisingEdge(clk)".  One   *)
(* clock cycle of the model is: the edge (a Tick action), then one step of *)
(* every suspended coroutine, in any order.  A step runs the code from the *)
(* yield the coroutine is suspended in up to the next yield it reaches.    *)
(*                                                                         *)
(* Signals.  "sig <= v" is a deferred write: it is applied after all       *)
(* coroutines resumed by the edge have run, so every read at an edge       *)
(* returns the value the signal had when the edge arrived.  sig holds the  *)
(* values sampled at the current edge, nxt the values after the writes of  *)
(* this time step (the last write to a signal wins).  Python attributes    *)
(* (access_active, the store) change at once.                              *)
(***************************************************************************)
EXTENDS Integers, Sequences, FiniteSets, TLC

VARIABLES
    sig,     \* signal name -> value sampled at the current edge
    nxt,     \* signal name -> value after this time step's writes
    ran,     \* the coroutines that have run in this time step
    bench,   \* which driver the test bench exercises
    wlock,   \* AXI_Lite_Writer.access_active
    wcall,   \* caller -> position and arguments of its AXI_Lite_Writer.write()
    rlock,   \* AXI_Lite_Reader.access_active
    rcall,   \* caller -> position, argument and result of its AXI_Lite_Reader.read()
    mem,     \* position and locals of Mem.main()
    store,   \* Mem._data, a sequence of bytes
    axw,     \* position and arguments of AXIS_Writer.write()
    axw2,    \* the same for a second, concurrent write() on the same AXIS_Writer
    axr,     \* position and locals of AXIS_Reader.read()
    obs      \* observer: what a monitor on the bus has recorded (no program state)

vars == <<sig, nxt, ran, bench, wlock, wcall, rlock, rcall, mem, store, axw, axw2, axr, obs>>

liteVars == <<wlock, wcall, rlock, rcall>>
memVars  == <<mem, store>>
axisVars == <<axw, axw2, axr>>

----------------------------------------------------------------------------
(* Bounds of the model. *)

\* number of concurrent callers of one AXI4-Lite driver instance
NCallers == 2

\* largest burst length field (beats - 1) the master of the memory benches issues
MaxLen == 1

\* largest number of beats of an AXI4-Stream transfer
MaxBeats == 3

Callers == 1..NCallers

----------------------------------------------------------------------------
(* Helpers. *)

Min(a, b) == IF a < b THEN a ELSE b

\* the deferred writes w (a record) applied to the signal values f
Puts(f, w) == [k \in DOMAIN f |-> IF k \in DOMAIN w THEN w[k] ELSE f[k]]

NoWrites == [k \in {} |-> 0]

\* the ids under which coroutines are entered in ran
WrId(c) == <<"w", c>>
RdId(c) == <<"r", c>>

----------------------------------------------------------------------------
(* AXI_Lite_Writer (axilite.py).  Positions of a write() call:             *)
(*   idle  not called          spin  line 81, waiting for the lock         *)
(*   aw    line 93             w     line 100                              *)
(*   b     line 106            rel   line 112                              *)

LiteWrSigs == {"awaddr", "awvalid", "awready", "wdata", "wvalid", "wready",
               "bvalid", "bready"}

WrHeld == {"aw", "w", "b", "rel"}

\* mutant: the lock is not tested
LockFreeIgnored(active) == TRUE

\* mutant: the lock is never found free
LockFreeNever(active) == FALSE

\* "if not self.access_active: break"
LockFree(active) == ~active

\* lines 78-90 from the lock test on: take the lock and drive the access, or spin
WrBegin(c, a, d) ==
    IF LockFree(wlock)
    THEN /\ wlock' = TRUE
         /\ nxt' = Puts(nxt, [awaddr |-> a, awvalid |-> 1, wdata |-> d,
                              wvalid |-> 1, bready |-> 1])
         /\ wcall' = [wcall EXCEPT ![c] = [pc |-> "aw", addr |-> a, data |-> d]]
    ELSE /\ wcall' = [wcall EXCEPT ![c] = [pc |-> "spin", addr |-> a, data |-> d]]
         /\ UNCHANGED <<wlock, nxt>>

\* lines 102-103, then suspend in line 106
WrDeassert(c) ==
    /\ nxt' = Puts(nxt, [awvalid |-> 0, wvalid |-> 0])
    /\ wcall' = [wcall EXCEPT ![c].pc = "b"]
    /\ UNCHANGED wlock

\* lines 97-100 entered without an edge in between: wready is tested first
WrDataLoop(c) ==
    IF sig["wready"] = 1
    THEN WrDeassert(c)
    ELSE /\ wcall' = [wcall EXCEPT ![c].pc = "w"]
         /\ UNCHANGED <<wlock, nxt>>

\* write(addr, data) is called: runs to its first yield
WrCall(c, a, d) ==
    /\ wcall[c].pc = "idle"
    /\ WrId(c) \notin ran
    /\ WrBegin(c, a, d)
    /\ ran' = ran \cup {WrId(c)}

\* an edge resumes the call
WrStep(c) ==
    /\ wcall[c].pc # "idle"
    /\ WrId(c) \notin ran
    /\ CASE wcall[c].pc = "spin" ->
              /\ WrBegin(c, wcall[c].addr, wcall[c].data)
              /\ ran' = ran \cup {WrId(c)}
         [] wcall[c].pc = "aw" ->
              /\ IF sig["awready"] = 1
                 THEN WrDataLoop(c)
                 ELSE UNCHANGED <<wlock, nxt, wcall>>
              /\ ran' = ran \cup {WrId(c)}
         [] wcall[c].pc = "w" ->
              /\ IF sig["wready"] = 1
                 THEN WrDeassert(c)
                 ELSE UNCHANGED <<wlock, nxt, wcall>>
              /\ ran' = ran \cup {WrId(c)}
         [] wcall[c].pc = "b" ->
              /\ IF sig["bvalid"] = 1
                 THEN /\ nxt' = Puts(nxt, [bready |-> 0])
                      /\ wcall' = [wcall EXCEPT ![c].pc = "rel"]
                 ELSE UNCHANGED <<nxt, wcall>>
              /\ UNCHANGED wlock
              /\ ran' = ran \cup {WrId(c)}
         [] wcall[c].pc = "rel" ->
              \* line 115; the call returns and its caller runs on in this time step
              /\ wlock' = FALSE
              /\ wcall' = [wcall EXCEPT ![c].pc = "idle"]
              /\ UNCHANGED <<nxt, ran>>

----------------------------------------------------------------------------
(* AXI_Lite_Reader (axilite.py).  Positions of a read() call:              *)
(*   idle  not called          spin  line 158                              *)
(*   ar    line 167            r     line 174         rel   line 182       *)

LiteRdSigs == {"araddr", "arvalid", "arready", "rdata", "rvalid", "rready"}

RdHeld == {"ar", "r", "rel"}

\* mutant: ARVALID stays high after the address was accepted
RdArAcceptedKeep == NoWrites

\* line 171
RdArAccepted == [arvalid |-> 0]

\* lines 155-164 from the lock test on
RdBegin(c, a) ==
    IF LockFree(rlock)
    THEN /\ rlock' = TRUE
         /\ nxt' = Puts(nxt, [araddr |-> a, arvalid |-> 1, rready |-> 1])
         /\ rcall' = [rcall EXCEPT ![c] = [pc |-> "ar", addr |-> a, data |-> 0]]
    ELSE /\ rcall' = [rcall EXCEPT ![c] = [pc |-> "spin", addr |-> a, data |-> 0]]
         /\ UNCHANGED <<rlock, nxt>>

\* read(addr) is called: runs to its first yield
RdCall(c, a) ==
    /\ rcall[c].pc = "idle"
    /\ RdId(c) \notin ran
    /\ RdBegin(c, a)
    /\ ran' = ran \cup {RdId(c)}

\* an edge resumes the call
RdStep(c) ==
    /\ rcall[c].pc # "idle"
    /\ RdId(c) \notin ran
    /\ CASE rcall[c].pc = "spin" ->
              /\ RdBegin(c, rcall[c].addr)
              /\ ran' = ran \cup {RdId(c)}
         [] rcall[c].pc = "ar" ->
              /\ IF sig["arready"] = 1
                 THEN /\ nxt' = Puts(nxt, RdArAccepted)
                      /\ rcall' = [rcall EXCEPT ![c].pc = "r"]
                 ELSE UNCHANGED <<nxt, rcall>>
              /\ UNCHANGED rlock
              /\ ran' = ran \cup {RdId(c)}
         [] rcall[c].pc = "r" ->
              /\ IF sig["rvalid"] = 1
                 THEN /\ nxt' = Puts(nxt, [rready |-> 0])
                      /\ rcall' = [rcall EXCEPT ![c].pc = "rel",
                                                ![c].data = sig["rdata"]]
                 ELSE UNCHANGED <<nxt, rcall>>
              /\ UNCHANGED rlock
              /\ ran' = ran \cup {RdId(c)}
         [] rcall[c].pc = "rel" ->
              \* line 185, then ReturnValue(data); the caller runs on in this time step
              /\ rlock' = FALSE
              /\ rcall' = [rcall EXCEPT ![c].pc = "idle"]
              /\ UNCHANGED <<nxt, ran>>

----------------------------------------------------------------------------
(* Mem (mem.py): the byte store.  A byte is a number 0..255, the store a   *)
(* sequence of bytes; index 1 of the sequence is Python index 0.           *)

\* bytes of the store (the size argument of Mem(size, offset)) in the handshake
\* bench and in the data bench
MemSize == 2
DataMemSize == 4

\* the offset argument of Mem(size, offset) in the benches
MemOffset == 1

RECURSIVE Pow(_, _)
Pow(b, e) == IF e = 0 THEN 1 ELSE b * Pow(b, e - 1)

\* len('%x' % v)
RECURSIVE HexLen(_)
HexLen(v) == IF v < 16 THEN 1 ELSE 1 + HexLen(v \div 16)

\* the n bytes of v, most significant first
ToBytes(v, n) == [k \in 1..n |-> (v \div Pow(256, n - k)) % 256]

\* int(bytes.encode('hex'), 16)
RECURSIVE FromBytes(_)
FromBytes(b) == IF Len(b) = 0 THEN 0
                ELSE 256 * FromBytes(SubSeq(b, 1, Len(b) - 1)) + b[Len(b)]

Reversed(b) == [k \in 1..Len(b) |-> b[Len(b) + 1 - k]]

\* "{0:0{1}x}".format(data, 2*size): the number of hex digits of the string
FormatLen(data, size) == IF HexLen(data) > 2 * size THEN HexLen(data) ELSE 2 * size

\* mutant: the upper limit is off by one
MemInBoundsSlack(offset, data, addr, size) ==
    addr >= offset /\ (addr - offset) + size <= Len(data) + 1

\* the assertions of write, write_reverse_byte_order and read
MemInBounds(offset, data, addr, size) ==
    addr >= offset /\ (addr - offset) + size <= Len(data)

\* data[a:b], a and b Python indices that are not negative
Slice(data, a, b) == SubSeq(data, a + 1, Min(b, Len(data)))

\* data[a:a+size] = bytes, a the Python index
SliceAssign(data, a, size, bytes) ==
    Slice(data, 0, a) \o bytes \o Slice(data, a + size, Len(data))

\* Mem.write / Mem.write_reverse_byte_order: [ok, err, data]; ok is FALSE when
\* an assertion fails (err "assert") or the hex string has an odd length and
\* decode('hex') raises (err "decode")
MemWriteBytes(offset, data, addr, v, size, reverse) ==
    IF ~MemInBounds(offset, data, addr, size)
    THEN [ok |-> FALSE, err |-> "assert", data |-> data]
    ELSE IF FormatLen(v, size) % 2 = 1
    THEN [ok |-> FALSE, err |-> "decode", data |-> data]
    ELSE LET b == ToBytes(v, FormatLen(v, size) \div 2)
         IN  [ok |-> TRUE, err |-> "",
              data |-> SliceAssign(data, addr - offset, size,
                                   IF reverse THEN Reversed(b) ELSE b)]

MemWrite(offset, data, addr, v, size) == MemWriteBytes(offset, data, addr, v, size, FALSE)

MemWriteReverse(offset, data, addr, v, size) ==
    MemWriteBytes(offset, data, addr, v, size, TRUE)

\* Mem.read: [ok, val]
MemRead(offset, data, addr, size) ==
    IF ~MemInBounds(offset, data, addr, size) THEN [ok |-> FALSE, val |-> 0]
    ELSE [ok |-> TRUE,
          val |-> FromBytes(Slice(data, addr - offset, addr - offset + size))]

\* Mem.read_reverse_byte_order: [ok, val]
MemReadReverse(offset, data, addr, size) ==
    LET r == MemRead(offset, data, addr, size)
    IN  IF ~r.ok THEN r
        ELSE [ok |-> TRUE,
              val |-> FromBytes(Reversed(ToBytes(r.val, FormatLen(r.val, size) \div 2)))]

----------------------------------------------------------------------------
(* Mem.main (mem.py), the AXI slave.  Positions (the yield main() is       *)
(* suspended in):                                                          *)
(*   idle      line 167                                                    *)
(*   wait      wait_n_cycles (tb.py line 53), cnt edges left; "after"      *)
(*             names the code that follows the wait:                       *)
(*               arready  line 183 (wait of line 179, read)                *)
(*               awready  line 234 (wait of line 179, write)               *)
(*               rburst   line 204 (wait of line 201)                      *)
(*               rnext    next pass of the loop of line 204 (wait of 230)  *)
(*               wburst   line 255 (wait of line 252)                      *)
(*               wnext    next pass of the loop of line 255 (wait of 284)  *)
(*   araccept  line 188        rbeat  line 221                             *)
(*   awaccept  line 239        wbeat  line 261       bresp  line 292       *)
(*   failed    main() has ended with an exception (err names it)           *)

MemSigs == {"araddr", "arlen", "arsize", "arvalid", "arready",
            "rready", "rdata", "rlast", "rvalid",
            "awaddr", "awlen", "awsize", "awvalid", "awready",
            "wready", "wdata", "wlast", "wvalid",
            "bresp", "bvalid", "bready"}

\* random.randint(0, 10) of line 179
AcceptDelayMax == 10
\* random.randint(0, 10) of lines 201 and 252
BurstDelayMax == 10
\* random.randint(0, 5) of line 230
ReadGapMax == 5
\* random.randint(1, 5) of line 284
WriteStallMax == 5

MemId == <<"mem", 0>>

MemIdle == [pc |-> "idle", cnt |-> 0, after |-> "", err |-> "",
            addr |-> 0, len |-> 0, size |-> 0, i |-> 0]

MemFailed(m, e) == [m EXCEPT !.pc = "failed", !.cnt = 0, !.after = "", !.err = e]

\* mutant: every delay may be one edge longer than the longest accept delay
MemDrawsLonger == 0..(AcceptDelayMax + 1)

\* mutant: a pending write address is served before a pending read address
MemSelectWriteFirst(arvalid, awvalid) ==
    IF awvalid = 1 THEN "awready" ELSE IF arvalid = 1 THEN "arready" ELSE ""

\* lines 169-176: the request served, "" when none is pending
MemSelect(arvalid, awvalid) ==
    IF arvalid = 1 THEN "arready" ELSE IF awvalid = 1 THEN "awready" ELSE ""

\* mutant: ARREADY is left high after the address was taken
MemArAcceptedKeep == NoWrites

\* line 198
MemArAccepted == [arready |-> 0]

\* line 249
MemAwAccepted == [awready |-> 0]

\* mutant: WLAST is only checked on the last beat
MemWlastOkLastOnly(i, len, wlast) == i = len => wlast = 1

\* lines 273-276: the assertions on WLAST hold
MemWlastOk(i, len, wlast) == IF i = len THEN wlast = 1 ELSE wlast = 0

\* mutant: RVALID is left high after the beat was taken
MemBeatTakenKeep == NoWrites

\* line 226
MemBeatTaken == [rvalid |-> 0]

\* mutant: no response is signalled
MemResponseNone == [bresp |-> 0]

\* lines 287-288
MemResponse == [bresp |-> 0, bvalid |-> 1]

\* mutant: the beat is read in the store's byte order
MemBeatReadPlain(data, addr, size) == MemRead(MemOffset, data, addr, size)

\* lines 207-208
MemBeatRead(data, addr, size) == MemReadReverse(MemOffset, data, addr, size)

\* mutant: the beat is not written
MemBeatWriteNothing(data, addr, v, size) ==
    [MemWriteReverse(MemOffset, data, addr, v, size) EXCEPT !.data = data]

\* mutant: the beat is stored in the bus byte order
MemBeatWritePlain(data, addr, v, size) == MemWrite(MemOffset, data, addr, v, size)

\* lines 269-270
MemBeatWrite(data, addr, v, size) == MemWriteReverse(MemOffset, data, addr, v, size)

\* the burst loops run one beat too far
MemBurstEndsLate(i, len) == i = len + 1

\* lines 204, 255: for i in range(len + 1); beat i is the last of the loop
MemBurstEnds(i, len) == i = len

\* lines 206-221: present read beat i of the burst in m; w are the writes
\* made earlier in this step
MemPresent(m, i, w) ==
    LET r == MemBeatRead(store, m.addr + i * Pow(2, m.size), Pow(2, m.size))
    IN  /\ IF r.ok
           THEN /\ nxt' = Puts(Puts(nxt, w),
                               [rdata |-> r.val, rvalid |-> 1,
                                rlast |-> IF i = m.len THEN 1 ELSE 0])
                /\ mem' = [m EXCEPT !.pc = "rbeat", !.cnt = 0, !.after = "", !.i = i]
           ELSE /\ nxt' = Puts(nxt, w)
                /\ mem' = MemFailed(m, "bounds")
        /\ UNCHANGED store

\* lines 257-261: await write beat i
MemAwait(m, i, w) ==
    /\ nxt' = Puts(Puts(nxt, w), [wready |-> 1])
    /\ mem' = [m EXCEPT !.pc = "wbeat", !.cnt = 0, !.after = "", !.i = i]
    /\ UNCHANGED store

\* the code that follows a wait
MemCont(m, k, w) ==
    CASE k = "arready" ->
           /\ nxt' = Puts(Puts(nxt, w), [arready |-> 1])
           /\ mem' = [m EXCEPT !.pc = "araccept", !.cnt = 0, !.after = ""]
           /\ UNCHANGED store
      [] k = "awready" ->
           /\ nxt' = Puts(Puts(nxt, w), [awready |-> 1])
           /\ mem' = [m EXCEPT !.pc = "awaccept", !.cnt = 0, !.after = ""]
           /\ UNCHANGED store
      [] k = "rburst" -> MemPresent(m, 0, w)
      [] k = "rnext"  -> MemPresent(m, m.i + 1, w)
      [] k = "wburst" -> MemAwait(m, 0, w)
      [] k = "wnext"  -> MemAwait(m, m.i + 1, w)

\* yield wait_n_cycles(clk, n), then the code named k
MemWait(m, n, k, w) ==
    IF n > 0
    THEN /\ nxt' = Puts(nxt, w)
         /\ mem' = [m EXCEPT !.pc = "wait", !.cnt = n, !.after = k]
         /\ UNCHANGED store
    ELSE MemCont(m, k, w)

\* lines 265-297 for the beat taken at this edge; n is the stall drawn
MemTakeBeat(n) ==
    LET r == MemBeatWrite(store, mem.addr + mem.i * Pow(2, mem.size),
                          sig["wdata"], Pow(2, mem.size))
    IN  IF ~r.ok
        THEN /\ mem' = MemFailed(mem, IF r.err = "assert" THEN "bounds" ELSE r.err)
             /\ UNCHANGED <<nxt, store>>
        ELSE IF ~MemWlastOk(mem.i, mem.len, sig["wlast"])
        THEN /\ store' = r.data
             /\ mem' = MemFailed(mem, "wlast")
             /\ UNCHANGED nxt
        ELSE IF ~MemBurstEnds(mem.i, mem.len)
        THEN /\ store' = r.data
             /\ nxt' = Puts(Puts(nxt, [wready |-> 0]), IF n > 0 THEN NoWrites ELSE [wready |-> 1])
             /\ mem' = IF n > 0
                       THEN [mem EXCEPT !.pc = "wait", !.cnt = n, !.after = "wnext"]
                       ELSE [mem EXCEPT !.i = @ + 1]
        ELSE /\ store' = r.data
             /\ nxt' = Puts(Puts(nxt, [wready |-> 0]), MemResponse)
             /\ mem' = [mem EXCEPT !.pc = "bresp"]

\* the random numbers a step at the current position may draw (0 when the
\* step draws none; for line 283, 0 is "random.random() >= 0.1")
MemDraws ==
    CASE mem.pc = "idle" /\ MemSelect(sig["arvalid"], sig["awvalid"]) # "" -> 0..AcceptDelayMax
      [] mem.pc = "araccept" /\ sig["arvalid"] = 1 -> 0..BurstDelayMax
      [] mem.pc = "awaccept" /\ sig["awvalid"] = 1 -> 0..BurstDelayMax
      [] mem.pc = "rbeat" /\ sig["rready"] = 1 /\ ~MemBurstEnds(mem.i, mem.len) -> 0..ReadGapMax
      [] mem.pc = "wbeat" /\ sig["wvalid"] = 1 /\ ~MemBurstEnds(mem.i, mem.len) -> 0..WriteStallMax
      [] OTHER -> {0}

\* an edge resumes main(); n is the random number the step draws
MemStep(n) ==
    /\ mem.pc \notin {"failed", "off"}
    /\ MemId \notin ran
    /\ ran' = ran \cup {MemId}
    /\ CASE mem.pc = "idle" ->
              IF MemSelect(sig["arvalid"], sig["awvalid"]) # ""
              THEN MemWait(mem, n, MemSelect(sig["arvalid"], sig["awvalid"]), NoWrites)
              ELSE UNCHANGED <<nxt, mem, store>>
         [] mem.pc = "wait" ->
              IF mem.cnt > 1
              THEN /\ mem' = [mem EXCEPT !.cnt = @ - 1]
                   /\ UNCHANGED <<nxt, store>>
              ELSE MemCont(mem, mem.after, NoWrites)
         [] mem.pc = "araccept" ->
              IF sig["arvalid"] = 1
              THEN MemWait([mem EXCEPT !.addr = sig["araddr"], !.len = sig["arlen"],
                                       !.size = sig["arsize"]],
                           n, "rburst", MemArAccepted)
              ELSE UNCHANGED <<nxt, mem, store>>
         [] mem.pc = "rbeat" ->
              IF sig["rready"] = 1
              THEN IF ~MemBurstEnds(mem.i, mem.len)
                   THEN MemWait(mem, n, "rnext", MemBeatTaken)
                   ELSE /\ nxt' = Puts(nxt, MemBeatTaken)
                        /\ mem' = MemIdle
                        /\ UNCHANGED store
              ELSE UNCHANGED <<nxt, mem, store>>
         [] mem.pc = "awaccept" ->
              IF sig["awvalid"] = 1
              THEN MemWait([mem EXCEPT !.addr = sig["awaddr"], !.len = sig["awlen"],
                                       !.size = sig["awsize"]],
                           n, "wburst", MemAwAccepted)
              ELSE UNCHANGED <<nxt, mem, store>>
         [] mem.pc = "wbeat" ->
              IF sig["wvalid"] = 1
              THEN MemTakeBeat(n)
              ELSE UNCHANGED <<nxt, mem, store>>
         [] mem.pc = "bresp" ->
              IF sig["bready"] = 1
              THEN /\ nxt' = Puts(nxt, [bvalid |-> 0])
                   /\ mem' = MemIdle
                   /\ UNCHANGED store
              ELSE UNCHANGED <<nxt, mem, store>>

----------------------------------------------------------------------------
(* Test bench of the AXI4-Lite drivers against an arbitrary slave.         *)
(* NCallers coroutines call write() (bench "writer") or read() (bench      *)
(* "reader") of one driver instance again and again; caller c passes       *)
(* address c and data c, so the bus shows whose access is driven.  The     *)
(* slave is not part of the repository: on every edge it shows any value   *)
(* on the signals it drives.  The writer and the reader are two instances  *)
(* with disjoint signals and locks, so each is exercised on its own.       *)

Off == [pc |-> "off"]

Bit == {0, 1}

\* what a bus monitor has seen of the access in progress (or the last one)
LiteObsInit == [open |-> FALSE,     \* an access is driven and has not finished
                overlap |-> FALSE,  \* an access began while another was open
                hsA |-> 0,          \* edges with address valid and ready, capped at 2
                hsD |-> 0,          \* edges with data valid and ready, capped at 2
                resp |-> FALSE,     \* the holder has sampled the response valid
                ret |-> FALSE,      \* some call has returned
                rd |-> -1]          \* reader: RDATA of the first edge with RVALID high
                                    \* after the edge of the address handshake (-1: none yet)

LiteObsBegin == [open |-> TRUE, overlap |-> obs.overlap \/ obs.open,
                 hsA |-> 0, hsD |-> 0, resp |-> FALSE, ret |-> obs.ret, rd |-> -1]

\* the monitor's record after a step of a call from position p to position q
LiteObsStep(p, q, held, respPos) ==
    IF p \notin held /\ q \in held THEN LiteObsBegin
    ELSE IF p = respPos /\ q = "rel" THEN [obs EXCEPT !.resp = TRUE]
    ELSE IF p = "rel" THEN [obs EXCEPT !.open = FALSE, !.ret = TRUE]
    ELSE obs

LiteObsEdge(s) ==
    IF ~obs.open THEN obs
    ELSE IF bench = "writer"
    THEN [obs EXCEPT
            !.hsA = Min(2, @ + IF s["awvalid"] = 1 /\ s["awready"] = 1 THEN 1 ELSE 0),
            !.hsD = Min(2, @ + IF s["wvalid"] = 1 /\ s["wready"] = 1 THEN 1 ELSE 0)]
    ELSE [obs EXCEPT
            !.hsA = Min(2, @ + IF s["arvalid"] = 1 /\ s["arready"] = 1 THEN 1 ELSE 0),
            !.hsD = Min(2, @ + IF s["rvalid"] = 1 /\ s["rready"] = 1 THEN 1 ELSE 0),
            !.rd = IF @ = -1 /\ obs.hsA >= 1 /\ s["rvalid"] = 1 THEN s["rdata"] ELSE @]

LiteInit ==
    /\ sig = [s \in LiteWrSigs \cup LiteRdSigs |-> 0]   \* after rst() of both drivers
    /\ nxt = sig
    /\ ran = {}
    /\ bench \in {"writer", "reader"}
    /\ wlock = FALSE                                     \* connect(), line 47
    /\ wcall = [c \in Callers |-> [pc |-> "idle", addr |-> 0, data |-> 0]]
    /\ rlock = FALSE                                     \* connect(), line 129
    /\ rcall = [c \in Callers |-> [pc |-> "idle", addr |-> 0, data |-> 0]]
    /\ mem = Off /\ store = <<>> /\ axw = Off /\ axw2 = Off /\ axr = Off
    /\ obs = LiteObsInit

LiteWrite(c) ==
    /\ bench = "writer"
    /\ WrCall(c, c, c) \/ WrStep(c)
    /\ obs' = LiteObsStep(wcall[c].pc, wcall'[c].pc, WrHeld, "b")
    /\ UNCHANGED <<sig, bench, rlock, rcall, memVars, axisVars>>

LiteRead(c) ==
    /\ bench = "reader"
    /\ RdCall(c, c) \/ RdStep(c)
    /\ obs' = LiteObsStep(rcall[c].pc, rcall'[c].pc, RdHeld, "r")
    /\ UNCHANGED <<sig, bench, wlock, wcall, memVars, axisVars>>

\* every coroutine suspended in a yield has been resumed by the current edge
LiteAllRan ==
    /\ \A c \in Callers : wcall[c].pc # "idle" => WrId(c) \in ran
    /\ \A c \in Callers : rcall[c].pc # "idle" => RdId(c) \in ran

\* the next rising edge: the writes of the time step take effect, the slave
\* shows any values on its outputs
LiteTick ==
    /\ LiteAllRan
    /\ \E aw \in Bit, w \in Bit, b \in Bit, rd \in Bit :
         /\ bench = "reader" => b = 0
         /\ (bench = "writer" \/ w = 0) => rd = 0
         /\ sig' = Puts(nxt, IF bench = "writer"
                             THEN [awready |-> aw, wready |-> w, bvalid |-> b]
                             ELSE [arready |-> aw, rvalid |-> w, rdata |-> rd])
    /\ nxt' = sig'
    /\ ran' = {}
    /\ obs' = LiteObsEdge(sig')
    /\ UNCHANGED <<bench, liteVars, memVars, axisVars>>

LiteNext == (\E c \in Callers : LiteWrite(c) \/ LiteRead(c)) \/ LiteTick

SpecLite == LiteInit /\ [][LiteNext]_vars

----------------------------------------------------------------------------
(* C1: on one AXI_Lite_Writer (and one AXI_Lite_Reader) with concurrent    *)
(* callers resumed in any order, at most one caller holds access_active,   *)
(* the lock is set exactly while a caller holds it, the address and data   *)
(* on the bus while awvalid (arvalid) is high are those of the holder, and *)
(* no caller starts driving before the previous holder has sampled the     *)
(* response valid and advanced one further edge.                           *)
WrHolders == {c \in Callers : wcall[c].pc \in WrHeld}
RdHolders == {c \in Callers : rcall[c].pc \in RdHeld}

C1_Serialized ==
    /\ Cardinality(WrHolders) <= 1
    /\ Cardinality(RdHolders) <= 1
    /\ wlock <=> WrHolders # {}
    /\ rlock <=> RdHolders # {}
    /\ ~obs.overlap
    /\ sig["awvalid"] = 1 =>
         \E c \in WrHolders : sig["awaddr"] = wcall[c].addr /\ sig["wdata"] = wcall[c].data
    /\ sig["arvalid"] = 1 =>
         \E c \in RdHolders : sig["araddr"] = rcall[c].addr
    /\ (obs.ret /\ ~obs.open) => obs.resp

\* a caller spins on the lock while another, who took it after an earlier
\* access had returned, drives the bus
C1_Witness ==
    /\ obs.ret
    /\ \E c1, c2 \in Callers :
         /\ wcall[c1].pc = "spin"
         /\ wcall[c2].pc = "aw"
         /\ sig["awvalid"] = 1 /\ sig["awaddr"] = c2

----------------------------------------------------------------------------
(* C6: every write() call sees exactly one edge with awvalid and awready   *)
(* high and exactly one edge with wvalid and wready high, and returns only *)
(* after it sampled bvalid high.                                           *)
C6_ExactlyOneAccess ==
    (bench = "writer" /\ obs.ret /\ ~obs.open) =>
        obs.hsA = 1 /\ obs.hsD = 1 /\ obs.resp

----------------------------------------------------------------------------
(* C7: when the slave has acknowledged the address on one edge and the     *)
(* data on one edge, in either order, the writer, resumed by the later of  *)
(* the two edges, has registered both and waits for the response.          *)
C7_AcksInEitherOrder ==
    \A c \in WrHolders :
        (WrId(c) \in ran /\ obs.hsA = 1 /\ obs.hsD = 1) => wcall[c].pc \in {"b", "rel"}

----------------------------------------------------------------------------
(* Test benches of Mem.main against an arbitrary AXI master.  The master   *)
(* is not part of the repository.  It shows any value on each signal it    *)
(* drives on the edges at which main() samples that signal, and 0 on the   *)
(* edges at which main() does not look at it.  WDATA fits the beat size.   *)
(*   handshake bench (SpecMem): ARVALID and AWVALID take any value on      *)
(*     every edge, any number of bursts, one WDATA value per beat size;    *)
(*   data bench (SpecMemData): the store is empty or preloaded, the master *)
(*     issues one write burst and any number of read bursts, two WDATA     *)
(*     values per beat size, the monitor records the data written.         *)

\* log2 of the beat sizes the master uses
SizeLogs == {0, 1}

\* the addresses the master uses: one below the store, and the store
MemAddrs == (MemOffset - 1)..(MemOffset + Len(store) - 1)

\* the values the master writes in a beat of n bytes: one with every byte
\* different and, in the data bench, one whose upper bytes are zero
WDataOne(n) == {FromBytes([k \in 1..n |-> k])}
WDataTwo(n) == {FromBytes([k \in 1..n |-> k]), 2}

NoBurst == [valid |-> FALSE, addr |-> 0, len |-> 0, size |-> 0, data |-> <<>>]

\* what a bus monitor has recorded
MemObsInit == [pre |-> MemIdle,   \* main()'s position and locals when the edge arrived
               ahead |-> 0,       \* write addresses accepted while ARVALID has stayed high
               writes |-> 0,      \* write addresses accepted (data bench)
               cur |-> <<>>,      \* WDATA taken in the burst in progress (data bench)
               last |-> NoBurst,  \* the last completed write burst (data bench)
               since |-> 0,       \* edges since main() sampled a pending address, or
                                  \* since the address handshake (delay bench)
               rlow |-> 0,        \* edges in a row with RVALID low in a read burst
               wlow |-> 0]        \* edges in a row with WREADY low in a write burst

\* a write beat is taken at the current edge
MemTook == obs.pre.pc = "wbeat" /\ sig["wvalid"] = 1

MemObsStep ==
    LET p == obs.pre
    IN  [obs EXCEPT
           !.ahead = IF p.pc = "araccept" /\ sig["arvalid"] = 1 THEN 0
                     ELSE IF p.pc = "awaccept" /\ sig["awvalid"] = 1 /\ sig["arvalid"] = 1
                     THEN Min(2, @ + 1) ELSE @]

MemObsData ==
    LET p == obs.pre
    IN  [obs EXCEPT
           !.writes = IF p.pc = "awaccept" /\ sig["awvalid"] = 1 THEN @ + 1 ELSE @,
           !.cur = IF ~MemTook THEN @
                   ELSE IF mem'.pc \in {"failed", "bresp"} THEN <<>>
                   ELSE Append(@, sig["wdata"]),
           !.last = IF ~MemTook THEN @
                    ELSE IF mem'.pc = "bresp"
                    THEN [valid |-> TRUE, addr |-> p.addr, len |-> p.len, size |-> p.size,
                          data |-> Append(obs.cur, sig["wdata"])]
                    ELSE NoBurst]

\* the store contents the benches start from: as constructed (line 30), or
\* preloaded by the test with write()
Stores(size, preloaded) ==
    {[k \in 1..size |-> 0]} \cup
    (IF preloaded THEN {[k \in 1..size |-> 16 * k]} ELSE {})

MemInit(size, preloaded) ==
    /\ sig = [s \in MemSigs |-> 0]     \* lines 147-158 have run, main() is in line 167
    /\ nxt = sig
    /\ ran = {}
    /\ bench = "mem"
    /\ wlock = FALSE /\ rlock = FALSE
    /\ wcall = [c \in Callers |-> Off] /\ rcall = [c \in Callers |-> Off]
    /\ mem = MemIdle
    /\ store \in Stores(size, preloaded)
    /\ axw = Off /\ axw2 = Off /\ axr = Off
    /\ obs = MemObsInit

MemRun ==
    /\ \E n \in MemDraws : MemStep(n)
    /\ obs' = MemObsStep
    /\ UNCHANGED <<sig, bench, liteVars, axisVars>>

MemRunData ==
    /\ \E n \in MemDraws : MemStep(n)
    /\ obs' = MemObsData
    /\ UNCHANGED <<sig, bench, liteVars, axisVars>>

MasterAddr(pos) ==
    IF mem.pc = pos
    THEN {[addr |-> a, len |-> l, size |-> z] : a \in MemAddrs, l \in 0..MaxLen, z \in SizeLogs}
    ELSE {[addr |-> 0, len |-> 0, size |-> 0]}

MasterBit(pos) == IF mem.pc = pos THEN Bit ELSE {0}

\* the next rising edge: the writes of the time step take effect and the
\* master shows its values; arBits and awBits are the values it may show on
\* ARVALID and AWVALID, WData(n) those it may show on WDATA for a beat of n bytes
MasterEdge(arBits, awBits, WData(_)) ==
    /\ mem.pc # "failed" => MemId \in ran
    /\ \E ar \in arBits, aw \in awBits, ra \in MasterAddr("araccept"), wa \in MasterAddr("awaccept"),
          rr \in MasterBit("rbeat"), wv \in MasterBit("wbeat"), br \in MasterBit("bresp") :
         \E wd \in IF wv = 1 THEN WData(Pow(2, mem.size)) ELSE {0},
            wl \in IF wv = 1 THEN Bit ELSE {0} :
           /\ ar = 0 => ra = [addr |-> 0, len |-> 0, size |-> 0]
           /\ aw = 0 => wa = [addr |-> 0, len |-> 0, size |-> 0]
           /\ sig' = Puts(nxt, [arvalid |-> ar, araddr |-> ra.addr, arlen |-> ra.len,
                                arsize |-> ra.size,
                                awvalid |-> aw, awaddr |-> wa.addr, awlen |-> wa.len,
                                awsize |-> wa.size,
                                rready |-> rr, wvalid |-> wv, wdata |-> wd, wlast |-> wl,
                                bready |-> br])
    /\ nxt' = sig'
    /\ ran' = {}
    /\ obs' = [obs EXCEPT !.pre = mem, !.ahead = IF sig'["arvalid"] = 0 THEN 0 ELSE @]
    /\ UNCHANGED <<bench, liteVars, memVars, axisVars>>

MasterTick == MasterEdge(Bit, Bit, WDataOne)

MasterTickData ==
    MasterEdge(IF mem.pc \in {"idle", "araccept"} THEN Bit ELSE {0},
               IF mem.pc \in {"idle", "awaccept"} /\ obs.writes = 0 THEN Bit ELSE {0},
               WDataTwo)

MemNext == MemRun \/ MasterTick

SpecMem == MemInit(MemSize, FALSE) /\ [][MemNext]_vars

MemDataNext == MemRunData \/ MasterTickData

SpecMemData == MemInit(DataMemSize, TRUE) /\ [][MemDataNext]_vars

----------------------------------------------------------------------------
(* C5: after a completed write burst, every beat of a read burst with the  *)
(* same address, length and beat size that the master takes (RREADY high)  *)
(* is valid and carries the value taken from WDATA in the beat of the same *)
(* index, whatever delays, gaps and stalls were drawn and whenever WVALID, *)
(* RREADY and BREADY were raised.                                          *)
SameBurst(p, w) == w.valid /\ w.addr = p.addr /\ w.len = p.len /\ w.size = p.size

C5_ReadBack ==
    /\ obs.last.valid => Len(obs.last.data) = obs.last.len + 1
    /\ (obs.pre.pc = "rbeat" /\ sig["rready"] = 1 /\ SameBurst(obs.pre, obs.last)) =>
          sig["rvalid"] = 1 /\ sig["rdata"] = obs.last.data[obs.pre.i + 1]

\* the second beat of a two-beat burst of two-byte beats, written with two
\* different values (the second with a zero upper byte), is taken
C5_Witness ==
    /\ obs.pre.pc = "rbeat" /\ sig["rready"] = 1 /\ SameBurst(obs.pre, obs.last)
    /\ obs.pre.i = 1 /\ obs.pre.size = 1
    /\ obs.last.data = <<258, 2>>
    /\ sig["rdata"] = 2

----------------------------------------------------------------------------
(* C8: when main() is resumed in its idle loop by an edge with ARVALID     *)
(* high it goes on to serve the read, whatever AWVALID is; it goes on to   *)
(* serve a write only from an edge with ARVALID low and AWVALID high; and  *)
(* while ARVALID stays high at most one write address is accepted.         *)
MemServes(k) ==
    \/ mem.pc = "wait" /\ mem.after = k
    \/ mem.pc = (IF k = "arready" THEN "araccept" ELSE "awaccept")

C8_ReadFirst ==
    /\ (MemId \in ran /\ obs.pre.pc = "idle" /\ sig["arvalid"] = 1) => MemServes("arready")
    /\ (MemId \in ran /\ obs.pre.pc = "idle" /\ MemServes("awready")) =>
          sig["arvalid"] = 0 /\ sig["awvalid"] = 1
    /\ obs.ahead <= 1

\* a read address that stayed pending while one write was served wins against
\* a second pending write address
C8_Witness ==
    /\ MemId \in ran /\ obs.pre.pc = "idle"
    /\ sig["arvalid"] = 1 /\ sig["awvalid"] = 1
    /\ obs.ahead = 1
    /\ MemServes("arready")

----------------------------------------------------------------------------
(* C9: ARREADY and AWREADY are never high on the same edge, and both are   *)
(* low on every edge that finds main() between the acceptance of an        *)
(* address and the end of its burst (for a write, of its response).        *)
InBurst(p) ==
    \/ p.pc \in {"rbeat", "wbeat", "bresp"}
    \/ p.pc = "wait" /\ p.after \in {"rburst", "rnext", "wburst", "wnext"}

C9_OneInFlight ==
    /\ ~(sig["arready"] = 1 /\ sig["awready"] = 1)
    /\ InBurst(obs.pre) => sig["arready"] = 0 /\ sig["awready"] = 0

\* both address channels are valid on an edge in the middle of a burst
C9_Witness ==
    /\ InBurst(obs.pre) /\ obs.pre.pc = "rbeat" /\ obs.pre.i = 1
    /\ sig["arvalid"] = 1 /\ sig["awvalid"] = 1
    /\ MemId \in ran

----------------------------------------------------------------------------
(* C10: a write beat taken with WLAST different from "this is beat awlen"  *)
(* ends main() at that edge; a beat with the right WLAST does not fail the *)
(* WLAST assertion; BVALID is raised only by a beat with index awlen and   *)
(* WLAST high, and is never raised once main() has ended.                  *)
C10_WlastAligned ==
    /\ (MemId \in ran /\ MemTook) =>
          IF (sig["wlast"] = 1) <=> (obs.pre.i = obs.pre.len)
          THEN mem.err # "wlast"
          ELSE mem.pc = "failed"
    /\ (MemId \in ran /\ obs.pre.pc = "wbeat" /\ mem.pc = "bresp") =>
          sig["wlast"] = 1 /\ obs.pre.i = obs.pre.len
    /\ mem.pc = "failed" => sig["bvalid"] = 0 /\ nxt["bvalid"] = 0

\* the first beat of a two-beat burst arrives with WLAST high
C10_Witness ==
    /\ MemId \in ran /\ MemTook
    /\ obs.pre.i = 0 /\ obs.pre.len = 1 /\ sig["wlast"] = 1
    /\ mem.pc = "failed" /\ mem.err = "wlast"

----------------------------------------------------------------------------
(* C16: an edge that finds main() in its response wait shows BVALID high   *)
(* with BRESP 0, and BVALID is high on no other edge; main() enters the    *)
(* wait in the step that took the last beat; it stays there, BVALID kept   *)
(* high, on every edge with BREADY low, and on the edge with BREADY high   *)
(* it lowers BVALID and goes back to its idle loop.                        *)
C16_Response ==
    /\ sig["bvalid"] = 1 <=> obs.pre.pc = "bresp"
    /\ obs.pre.pc = "bresp" => sig["bresp"] = 0
    /\ (MemId \in ran /\ obs.pre.pc = "bresp") =>
          IF sig["bready"] = 1
          THEN mem.pc = "idle" /\ nxt["bvalid"] = 0
          ELSE mem.pc = "bresp" /\ nxt["bvalid"] = 1
    /\ (MemId \in ran /\ MemTook /\ obs.pre.i = obs.pre.len /\ mem.pc # "failed") =>
          mem.pc = "bresp" /\ nxt["bvalid"] = 1 /\ nxt["bresp"] = 0
    /\ mem.pc = "bresp" => (obs.pre.pc = "bresp" \/ (MemTook /\ obs.pre.i = obs.pre.len))

\* main() stays in the response wait on an edge with BREADY low while a read
\* address is pending
C16_Witness ==
    /\ MemId \in ran /\ obs.pre.pc = "bresp" /\ mem.pc = "bresp"
    /\ sig["bready"] = 0 /\ sig["bvalid"] = 1
    /\ sig["arvalid"] = 1
    /\ obs.pre.len = 1

----------------------------------------------------------------------------
(* Test bench of the AXI4-Lite drivers attached to Mem.  The AXI signals   *)
(* the Lite drivers do not have are tied off: burst length 0, beat size    *)
(* equal to the data width (one or two bytes), WLAST high.  The test is    *)
(*     yield writer.write(addr, data)                                      *)
(*     ... any number of edges ...                                         *)
(*     value = yield reader.read(addr)                                     *)
(* with addr in bounds and data fitting the width; the store is empty or   *)
(* preloaded.  obs.ph is the test's position.                              *)

LiteMemTieOff(z) == [arlen |-> 0, awlen |-> 0, arsize |-> z, awsize |-> z, wlast |-> 1]

\* bytes of the data width
LiteMemBytes == Pow(2, sig["awsize"])

\* the addresses of the beats that lie in the store
LiteMemAddrs == MemOffset..(MemOffset + Len(store) - LiteMemBytes)

\* data values of n bytes: zero, all ones, upper bytes zero, all bytes different
LiteMemData(n) == {0, Pow(256, n) - 1, 2, FromBytes([k \in 1..n |-> k])}

LiteMemInit ==
    /\ \E z \in SizeLogs : sig = Puts([s \in MemSigs |-> 0], LiteMemTieOff(z))
    /\ nxt = sig
    /\ ran = {}
    /\ bench = "litemem"
    /\ wlock = FALSE /\ rlock = FALSE
    /\ wcall = [c \in Callers |-> [pc |-> "idle", addr |-> 0, data |-> 0]]
    /\ rcall = [c \in Callers |-> [pc |-> "idle", addr |-> 0, data |-> 0]]
    /\ mem = MemIdle
    /\ store \in Stores(DataMemSize, TRUE)
    /\ axw = Off /\ axw2 = Off /\ axr = Off
    /\ obs = [pre |-> MemIdle, ph |-> "start", addr |-> 0, data |-> 0]

LiteMemWrite ==
    /\ \/ /\ obs.ph = "start"
          /\ \E a \in LiteMemAddrs, d \in LiteMemData(LiteMemBytes) :
               /\ WrCall(1, a, d)
               /\ obs' = [obs EXCEPT !.ph = "writing", !.addr = a, !.data = d]
       \/ /\ obs.ph = "writing"
          /\ WrStep(1)
          /\ obs' = [obs EXCEPT !.ph = IF wcall'[1].pc = "idle" THEN "written" ELSE @]
    /\ UNCHANGED <<sig, bench, rlock, rcall, memVars, axisVars>>

LiteMemRead ==
    /\ \/ /\ obs.ph = "written"
          /\ RdCall(1, obs.addr)
          /\ obs' = [obs EXCEPT !.ph = "reading"]
       \/ /\ obs.ph = "reading"
          /\ RdStep(1)
          /\ obs' = [obs EXCEPT !.ph = IF rcall'[1].pc = "idle" THEN "done" ELSE @]
    /\ UNCHANGED <<sig, bench, wlock, wcall, memVars, axisVars>>

LiteMemRun ==
    /\ \E n \in MemDraws : MemStep(n)
    /\ UNCHANGED <<sig, bench, liteVars, axisVars, obs>>

\* the next rising edge: the writes of the time step take effect
LiteMemTick ==
    /\ obs.ph = "writing" => WrId(1) \in ran
    /\ obs.ph = "reading" => RdId(1) \in ran
    /\ mem.pc # "failed" => MemId \in ran
    /\ sig' = nxt
    /\ nxt' = nxt
    /\ ran' = {}
    /\ obs' = [obs EXCEPT !.pre = mem]
    /\ UNCHANGED <<bench, liteVars, memVars, axisVars>>

LiteMemNext == LiteMemWrite \/ LiteMemRead \/ LiteMemRun \/ LiteMemTick

SpecLiteMem == LiteMemInit /\ [][LiteMemNext]_vars

(* C2: when read(addr) has returned after write(addr, data) returned, its  *)
(* result is data; main() has not failed and the store holds the bytes.    *)
C2_RoundTrip ==
    /\ obs.ph = "done" => rcall[1].data = obs.data
    /\ obs.ph \in {"written", "reading", "done"} =>
          MemBeatRead(store, obs.addr, LiteMemBytes) = [ok |-> TRUE, val |-> obs.data]
    /\ mem.pc # "failed"

\* a two-byte value with different bytes has been read back from an address
\* above the offset of a preloaded store
C2_Witness ==
    /\ obs.ph = "done"
    /\ obs.data = 258 /\ rcall[1].data = 258
    /\ obs.addr = MemOffset + 1
    /\ \E k \in DOMAIN store : store[k] = 16 * k

----------------------------------------------------------------------------
(* AXIS_Writer and AXIS_Reader (axis.py).  Positions of write():           *)
(*   idle  not called      beat  line 113       gap  line 122              *)
(*   done  returned                                                        *)
(* Positions of read():                                                    *)
(*   idle  not called      run   line 191                                  *)
(*   done  returned (ret is the value)   failed  ended with TestFailure    *)

AxisSigs == {"tdata", "tvalid", "tlast", "tkeep", "tready", "tuser"}

\* the bit_width argument of connect()
BitWidth == 16

\* pow(2, self.bit_width/8)-1
AxFullKeep == Pow(2, BitWidth \div 8) - 1

AxWrId == <<"axw", 0>>
AxWr2Id == <<"axw", 1>>
AxRdId == <<"axr", 0>>

AxWrIdle(hasTready, hasTuser) ==
    [pc |-> "idle", has_tready |-> hasTready, has_tuser |-> hasTuser,
     i |-> 0, tdata |-> <<>>, tkeep |-> 0, tuser |-> <<>>, gaps |-> FALSE]

AxRdIdle(hasTready, hasTuser) ==
    [pc |-> "idle", has_tready |-> hasTready, has_tuser |-> hasTuser,
     tdata |-> <<>>, tuser |-> <<>>, none |-> ~hasTuser, tkeep |-> 0]

\* lines 101-104: the TUSER value of beat i (counted from 0)
AxTuserAt(tuser, i) == IF i < Len(tuser) THEN tuser[i + 1] ELSE 0

\* lines 97-110: the signal values after write() has driven beat i of the
\* transfer in w
AxWrDrive(w, i) ==
    Puts(Puts(Puts(nxt, [tdata |-> w.tdata[i + 1], tvalid |-> 1]),
              IF w.has_tuser THEN [tuser |-> AxTuserAt(w.tuser, i)] ELSE NoWrites),
         IF i = Len(w.tdata) - 1
         THEN [tlast |-> 1, tkeep |-> w.tkeep]
         ELSE [tkeep |-> AxFullKeep])

\* mutant: TLAST is left as it is at the end of the transfer
AxWrEndValidOnly == [tvalid |-> 0]

\* lines 124-125
AxWrEnd == [tvalid |-> 0, tlast |-> 0]

\* mutant: the writer waits for TREADY even when the signal does not exist
AxWrAcceptedIfHigh(hasTready, tready) == tready = 1

\* mutant: the writer does not look at TREADY
AxWrAcceptedAlways(hasTready, tready) == TRUE

\* line 114
AxWrAccepted(hasTready, tready) == ~hasTready \/ tready = 1

\* mutant: a gap may follow the last beat as well
AxWrGapAnywhere(gaps, i, n, g) == gaps /\ g

\* lines 117-120: a gap follows beat i of n; g is "random.random() < 0.2"
AxWrGap(gaps, i, n, g) == gaps /\ i # n - 1 /\ g

\* line 96, the for loop goes on behind beat i: [w, nxt], the call's record
\* and the signal values when it suspends or returns
AxWrLoop(w, i) ==
    IF i + 1 < Len(w.tdata)
    THEN [w |-> [w EXCEPT !.pc = "beat", !.i = i + 1], nxt |-> AxWrDrive(w, i + 1)]
    ELSE [w |-> [w EXCEPT !.pc = "done"], nxt |-> Puts(nxt, AxWrEnd)]

\* write(tdata, tkeep, tuser, insert_random_gaps) runs to its first yield
AxWrBegin(w, tdata, tkeep, tuser, gaps) ==
    AxWrLoop([w EXCEPT !.tdata = tdata, !.tkeep = tkeep, !.tuser = tuser,
                       !.gaps = gaps, !.i = 0], -1)

\* an edge resumes the call w
AxWrResume(w, g) ==
    IF w.pc = "gap" THEN AxWrLoop(w, w.i)
    ELSE IF ~AxWrAccepted(w.has_tready, sig["tready"]) THEN [w |-> w, nxt |-> nxt]
    ELSE IF AxWrGap(w.gaps, w.i, Len(w.tdata), g)
    THEN [w |-> [w EXCEPT !.pc = "gap"], nxt |-> Puts(nxt, [tvalid |-> 0])]
    ELSE AxWrLoop(w, w.i)

\* write(tdata, tkeep, tuser, insert_random_gaps) is called
AxWrCall(tdata, tkeep, tuser, gaps) ==
    /\ axw.pc = "idle"
    /\ AxWrId \notin ran
    /\ ran' = ran \cup {AxWrId}
    /\ axw' = AxWrBegin(axw, tdata, tkeep, tuser, gaps).w
    /\ nxt' = AxWrBegin(axw, tdata, tkeep, tuser, gaps).nxt

\* an edge resumes write()
AxWrStep(g) ==
    /\ axw.pc \in {"beat", "gap"}
    /\ AxWrId \notin ran
    /\ ran' = ran \cup {AxWrId}
    /\ axw' = AxWrResume(axw, g).w
    /\ nxt' = AxWrResume(axw, g).nxt

\* the same for the second call
AxWr2Call(tdata, tkeep, tuser, gaps) ==
    /\ axw2.pc = "idle"
    /\ AxWr2Id \notin ran
    /\ ran' = ran \cup {AxWr2Id}
    /\ axw2' = AxWrBegin(axw2, tdata, tkeep, tuser, gaps).w
    /\ nxt' = AxWrBegin(axw2, tdata, tkeep, tuser, gaps).nxt

AxWr2Step(g) ==
    /\ axw2.pc \in {"beat", "gap"}
    /\ AxWr2Id \notin ran
    /\ ran' = ran \cup {AxWr2Id}
    /\ axw2' = AxWrResume(axw2, g).w
    /\ nxt' = AxWrResume(axw2, g).nxt

\* mutant: any TKEEP is accepted on a beat that is not the last
AxKeepOkAny(tkeep) == TRUE

\* line 204
AxKeepOk(tkeep) == tkeep = AxFullKeep

\* mutant: the reader does not look at TREADY
AxRdCapturesValidOnly(hasTready, s) == s["tvalid"] # 0

\* line 193-194: the beat on the bus is captured
AxRdCaptures(hasTready, s) == (~hasTready \/ s["tready"] # 0) /\ s["tvalid"] # 0

\* read() is called: runs to its first yield
AxRdCall ==
    /\ axr.pc = "idle"
    /\ AxRdId \notin ran
    /\ ran' = ran \cup {AxRdId}
    /\ axr' = [axr EXCEPT !.pc = "run", !.tdata = <<>>, !.tuser = <<>>]
    /\ UNCHANGED nxt

\* an edge resumes read()
AxRdStep ==
    /\ axr.pc = "run"
    /\ AxRdId \notin ran
    /\ ran' = ran \cup {AxRdId}
    /\ UNCHANGED nxt
    /\ IF ~AxRdCaptures(axr.has_tready, sig)
       THEN UNCHANGED axr
       ELSE LET r == [axr EXCEPT !.tdata = Append(@, sig["tdata"]),
                                 !.tuser = IF axr.has_tuser THEN Append(@, sig["tuser"]) ELSE @]
            IN  IF sig["tlast"] # 0
                THEN axr' = [r EXCEPT !.pc = "done", !.tkeep = sig["tkeep"]]
                ELSE IF ~AxKeepOk(sig["tkeep"])
                THEN axr' = [r EXCEPT !.pc = "failed"]
                ELSE axr' = r

----------------------------------------------------------------------------
(* Test benches of the AXI4-Stream drivers.                                *)
(*   loopback (SpecAxis): the writer's and the reader's signals are the    *)
(*     same wires, TREADY and TUSER exist for both or for neither; TREADY  *)
(*     is driven by the environment and takes any value on every edge.     *)
(*     The test starts read(), then, any number of edges later or in the   *)
(*     same time step, write() with a non-empty tdata list, any final      *)
(*     tkeep, a tuser list no longer than tdata, gaps enabled or not.      *)
(*   reader (SpecAxisRd): read() against an arbitrary stream master that   *)
(*     shows any values on every edge.                                     *)

AxWords == {1, 2}

\* the lists of at least lo and at most hi words
AxLists(lo, hi) == UNION {[1..k -> AxWords] : k \in lo..hi}

\* what a bus monitor has recorded
AxObsInit == [cap |-> 0,     \* beats on the bus on edges that resumed read()
              badAt |-> 0,   \* which of them was the first with TLAST low and TKEEP not full
              shown |-> 0,   \* which beat write() presents at the current edge (0: none)
              idle |-> 0,    \* edges, capped at 2, that write() has spent suspended in its gap
              edges |-> 0,   \* without TREADY: edges that found write() suspended
              gapsN |-> 0,   \* without TREADY: those that found it in the gap (line 122)
              seen |-> <<>>, \* TDATA of the edges with TVALID high and TREADY high or absent
                             \* that resumed read()
              lastAt |-> 0,  \* which of them was the first with TLAST high
              keepAt |-> 0]  \* TKEEP on that edge

AxisStart(b) ==
    /\ sig = [s \in AxisSigs |-> 0]     \* after rst() of writer and reader
    /\ nxt = sig
    /\ ran = {}
    /\ bench = b
    /\ wlock = FALSE /\ rlock = FALSE
    /\ wcall = [c \in Callers |-> Off] /\ rcall = [c \in Callers |-> Off]
    /\ mem = Off /\ store = <<>>
    /\ \E ht \in BOOLEAN, hu \in BOOLEAN :
         axw = AxWrIdle(ht, hu) /\ axw2 = axw /\ axr = AxRdIdle(ht, hu)

AxisInit(b) == AxisStart(b) /\ obs = AxObsInit

AxisWrite ==
    /\ \/ /\ axr.pc # "idle" /\ axw.pc = "idle"
          /\ \E tdata \in AxLists(1, MaxBeats), tkeep \in 0..AxFullKeep, gaps \in BOOLEAN :
               \E tuser \in IF axw.has_tuser THEN AxLists(0, Len(tdata)) ELSE {<<>>} :
                 AxWrCall(tdata, tkeep, tuser, gaps)
       \/ \E g \in BOOLEAN : AxWrStep(g)
    /\ UNCHANGED <<sig, bench, liteVars, memVars, axw2, axr, obs>>

AxisRead ==
    /\ AxRdCall \/ AxRdStep
    /\ UNCHANGED <<sig, bench, liteVars, memVars, axw, axw2, obs>>

AxisAllRan ==
    /\ axw.pc \in {"beat", "gap"} => AxWrId \in ran
    /\ axr.pc = "run" => AxRdId \in ran

\* a transfer on the bus: TVALID is high and TREADY is high or does not exist
AxBeatOnBus(hasTready, s) == s["tvalid"] = 1 /\ (~hasTready \/ s["tready"] = 1)

AxObsEdge(s) ==
    [cap |-> IF axr.pc = "run" /\ AxRdCaptures(axr.has_tready, s) THEN obs.cap + 1 ELSE obs.cap,
     badAt |-> IF /\ axr.pc = "run" /\ AxRdCaptures(axr.has_tready, s)
                  /\ obs.badAt = 0 /\ s["tlast"] = 0 /\ s["tkeep"] # AxFullKeep
               THEN obs.cap + 1 ELSE obs.badAt,
     shown |-> IF axw.pc = "beat" THEN axw.i + 1 ELSE 0,
     idle |-> IF axw.pc = "gap" THEN Min(2, obs.idle + 1) ELSE 0,
     edges |-> IF ~axw.has_tready /\ axw.pc \in {"beat", "gap"}
               THEN obs.edges + 1 ELSE obs.edges,
     gapsN |-> IF ~axw.has_tready /\ axw.pc = "gap" THEN obs.gapsN + 1 ELSE obs.gapsN,
     seen |-> IF axr.pc = "run" /\ AxBeatOnBus(axr.has_tready, s)
              THEN Append(obs.seen, s["tdata"]) ELSE obs.seen,
     lastAt |-> IF axr.pc = "run" /\ AxBeatOnBus(axr.has_tready, s) /\ s["tlast"] = 1
                THEN Len(obs.seen) + 1 ELSE obs.lastAt,
     keepAt |-> IF axr.pc = "run" /\ AxBeatOnBus(axr.has_tready, s) /\ s["tlast"] = 1
                THEN s["tkeep"] ELSE obs.keepAt]

\* the next rising edge of the loopback: the writes of the time step take
\* effect, the environment shows any value on TREADY when the signal exists
AxisTick ==
    /\ AxisAllRan
    /\ \E r \in IF axr.has_tready THEN Bit ELSE {0} : sig' = Puts(nxt, [tready |-> r])
    /\ nxt' = sig'
    /\ ran' = {}
    /\ obs' = AxObsEdge(sig')
    /\ UNCHANGED <<bench, liteVars, memVars, axisVars>>

AxisNext == AxisWrite \/ AxisRead \/ AxisTick

SpecAxis == AxisInit("axis") /\ [][AxisNext]_vars

\* the next rising edge of the reader bench: the master shows any beat; the
\* beat that would make read()'s list longer than MaxBeats ends the transfer
AxisRdTick ==
    /\ AxisAllRan
    /\ \E v \in Bit, r \in IF axr.has_tready THEN Bit ELSE {0} :
         \E d \in IF v = 1 THEN AxWords ELSE {0},
            l \in IF v = 1 THEN Bit ELSE {0},
            k \in IF v = 1 THEN 0..AxFullKeep ELSE {0},
            u \in IF v = 1 /\ axr.has_tuser THEN Bit ELSE {0} :
           /\ (axr.pc = "run" /\ Len(axr.tdata) >= MaxBeats - 1 /\ v = 1) =>
                 (l = 1 \/ k # AxFullKeep)
           /\ sig' = Puts(nxt, [tvalid |-> v, tready |-> r, tdata |-> d, tlast |-> l,
                                tkeep |-> k, tuser |-> u])
    /\ nxt' = sig'
    /\ ran' = {}
    /\ obs' = AxObsEdge(sig')
    /\ UNCHANGED <<bench, liteVars, memVars, axisVars>>

AxisRdNext == AxisRead \/ AxisRdTick

SpecAxisRd == AxisInit("axisrd") /\ [][AxisRdNext]_vars

----------------------------------------------------------------------------
(* C3: in the loopback, when read() has returned its tdata is the written  *)
(* tdata list, its tkeep the written final tkeep, its tuser the written    *)
(* tuser list padded with zeros to the length of tdata (None without a     *)
(* TUSER signal); read() never fails, and it returns on the edge on which  *)
(* write() returns.                                                        *)
AxPadded(tuser, n) == [k \in 1..n |-> IF k <= Len(tuser) THEN tuser[k] ELSE 0]

C3_Loopback ==
    /\ axr.pc = "done" =>
          /\ axr.tdata = axw.tdata
          /\ axr.tkeep = axw.tkeep
          /\ IF axr.has_tuser
             THEN ~axr.none /\ axr.tuser = AxPadded(axw.tuser, Len(axw.tdata))
             ELSE axr.none
    /\ axr.pc # "failed"
    /\ (axw.pc = "done" /\ AxRdId \in ran) => axr.pc = "done"
    /\ axr.pc = "done" => (axw.pc = "done" \/ AxWrId \notin ran)

\* three beats with a partial final tkeep and a shorter tuser list came back,
\* TREADY having been low on an edge and a gap inserted
C3_Witness ==
    /\ axr.pc = "done"
    /\ axr.tdata = <<1, 2, 1>> /\ axr.tkeep = 1
    /\ axr.has_tready /\ axr.has_tuser
    /\ axw.tuser = <<2>> /\ axr.tuser = <<2, 0, 0>>
    /\ axw.gaps
    /\ obs.cap = 3

----------------------------------------------------------------------------
(* C4: the first beat captured by read() with TLAST low and TKEEP not full *)
(* ends read() with a failure on that edge: its lists stop at that beat,   *)
(* whatever the bus shows later, and it does not return; read() fails for  *)
(* no other reason.                                                        *)
C4_FailsAtOnce ==
    /\ obs.badAt > 0 =>
          \/ axr.pc = "failed" /\ Len(axr.tdata) = obs.badAt
          \/ axr.pc = "run" /\ AxRdId \notin ran /\ Len(axr.tdata) = obs.badAt - 1
    /\ axr.pc = "failed" => obs.badAt > 0
    /\ axr.pc = "done" => obs.badAt = 0

\* read() failed on its second beat and a later edge shows a final beat
C4_Witness ==
    /\ axr.pc = "failed" /\ obs.badAt = 2 /\ Len(axr.tdata) = 2
    /\ AxRdCaptures(axr.has_tready, sig) /\ sig["tlast"] = 1

----------------------------------------------------------------------------
(* Test bench of the store of Mem: a test calls write, read and their      *)
(* reverse-byte-order variants on a Mem(CodecMemSize, MemOffset) with      *)
(* addresses below, in and above the store, sizes 1 and 2 and values that  *)
(* fit the size or not.  obs is the last call: its arguments, the store    *)
(* before it and its outcome.  A store that has grown is not used further. *)

\* bytes of the store of this bench
CodecMemSize == 3

CodecAddrs == (MemOffset - 1)..(MemOffset + CodecMemSize)

CodecSizes == {1, 2}

\* 0x01, 0x101 and 0x1001: for size 1 a value that fits, one too large with an
\* odd and one too large with an even number of hex digits
CodecValues == {1, 257, 4097}

CodecInit ==
    /\ sig = <<>> /\ nxt = <<>> /\ ran = {}
    /\ bench = "codec"
    /\ wlock = FALSE /\ rlock = FALSE
    /\ wcall = [c \in Callers |-> Off] /\ rcall = [c \in Callers |-> Off]
    /\ mem = Off
    /\ store = [k \in 1..CodecMemSize |-> 0]     \* line 30
    /\ axw = Off /\ axw2 = Off /\ axr = Off
    /\ obs = [op |-> "", addr |-> 0, size |-> 0, v |-> 0, before |-> <<>>,
              ok |-> TRUE, err |-> "", val |-> 0]

CodecWrite ==
    /\ Len(store) = CodecMemSize
    /\ \E a \in CodecAddrs, n \in CodecSizes, v \in CodecValues, reverse \in BOOLEAN :
         LET r == MemWriteBytes(MemOffset, store, a, v, n, reverse)
         IN  /\ store' = r.data
             /\ obs' = [op |-> IF reverse THEN "write_reverse" ELSE "write",
                        addr |-> a, size |-> n, v |-> v, before |-> store,
                        ok |-> r.ok, err |-> r.err, val |-> 0]
    /\ UNCHANGED <<sig, nxt, ran, bench, liteVars, mem, axisVars>>

CodecRead ==
    /\ Len(store) = CodecMemSize
    /\ \E a \in CodecAddrs, n \in CodecSizes, reverse \in BOOLEAN :
         LET r == IF reverse THEN MemReadReverse(MemOffset, store, a, n)
                             ELSE MemRead(MemOffset, store, a, n)
         IN  obs' = [op |-> IF reverse THEN "read_reverse" ELSE "read",
                     addr |-> a, size |-> n, v |-> 0, before |-> store,
                     ok |-> r.ok, err |-> IF r.ok THEN "" ELSE "assert", val |-> r.val]
    /\ UNCHANGED <<sig, nxt, ran, bench, liteVars, memVars, axisVars>>

CodecNext == CodecWrite \/ CodecRead

SpecCodec == CodecInit /\ [][CodecNext]_vars

(* C11: a call with addr < offset or addr + size > offset + size() fails   *)
(* with an assertion and leaves the store as it was; a call that did not   *)
(* fail with an assertion had offset <= addr and addr + size <= offset +   *)
(* size().                                                                 *)
CodecInRange == obs.addr >= MemOffset /\ obs.addr + obs.size <= MemOffset + Len(obs.before)

C11_BoundsAsserted ==
    obs.op # "" =>
       /\ ~CodecInRange => ~obs.ok /\ obs.err = "assert" /\ store = obs.before
       /\ obs.err # "assert" => CodecInRange

\* a two-byte reversed write whose last byte lies behind a store that holds data
C11_Witness ==
    /\ obs.op = "write_reverse" /\ obs.size = 2
    /\ obs.addr = MemOffset + CodecMemSize - 1
    /\ obs.err = "assert"
    /\ \E k \in DOMAIN store : store[k] # 0

(* C12: write and write_reverse_byte_order called in range with a value    *)
(* >= 2^(8*size) fail with an assertion and leave the contents and the     *)
(* size of the store unchanged.                                            *)
C12_OverflowAsserted ==
    (obs.op \in {"write", "write_reverse"} /\ CodecInRange /\ obs.v >= Pow(256, obs.size)) =>
       ~obs.ok /\ obs.err = "assert" /\ store = obs.before

----------------------------------------------------------------------------
(* Test bench of two concurrent write() calls on one AXIS_Writer           *)
(* (SpecAxis2): a coroutine calls write() with words 1 and 2, another      *)
(* calls write() with words 3 in the same time step or later; TREADY       *)
(* takes any value on every edge.                                          *)

\* a word the first transfer does not carry
Ax2Word == Cardinality(AxWords) + 1

Axis2First ==
    /\ \/ /\ axw.pc = "idle"
          /\ \E tdata \in AxLists(1, MaxBeats), gaps \in BOOLEAN :
               AxWrCall(tdata, AxFullKeep, <<>>, gaps)
       \/ \E g \in BOOLEAN : AxWrStep(g)
    /\ UNCHANGED <<sig, bench, liteVars, memVars, axw2, axr, obs>>

Axis2Second ==
    /\ \/ /\ axw.pc # "idle" /\ axw2.pc = "idle"
          /\ \E n \in 1..MaxBeats, gaps \in BOOLEAN :
               AxWr2Call([k \in 1..n |-> Ax2Word], AxFullKeep, <<>>, gaps)
       \/ \E g \in BOOLEAN : AxWr2Step(g)
    /\ UNCHANGED <<sig, bench, liteVars, memVars, axw, axr, obs>>

Axis2Tick ==
    /\ axw.pc \in {"beat", "gap"} => AxWrId \in ran
    /\ axw2.pc \in {"beat", "gap"} => AxWr2Id \in ran
    /\ \E r \in IF axw.has_tready THEN Bit ELSE {0} : sig' = Puts(nxt, [tready |-> r])
    /\ nxt' = sig'
    /\ ran' = {}
    /\ obs' = AxObsEdge(sig')
    /\ UNCHANGED <<bench, liteVars, memVars, axisVars>>

Axis2Next == Axis2First \/ Axis2Second \/ Axis2Tick

SpecAxis2 == AxisInit("axis2") /\ [][Axis2Next]_vars

(* C13: no beat of the second transfer (a word 3) is on the bus before     *)
(* the first write() has had its final beat acknowledged and returned.     *)
C13_NoInterleaving ==
    (sig["tvalid"] = 1 /\ sig["tdata"] = Ax2Word) => axw.pc = "done"

----------------------------------------------------------------------------
(* C14: in the loopback, on every edge with TVALID high the bus shows a    *)
(* beat of the list, TLAST is high exactly on the final beat, TKEEP is the *)
(* full mask on the other beats and the supplied tkeep on the final one;   *)
(* when write() has returned it has driven TVALID and TLAST low, and both  *)
(* are low from the next edge on.                                          *)
C14_LastAndKeep ==
    /\ sig["tvalid"] = 1 =>
          /\ obs.shown \in 1..Len(axw.tdata)
          /\ sig["tdata"] = axw.tdata[obs.shown]
          /\ sig["tlast"] = (IF obs.shown = Len(axw.tdata) THEN 1 ELSE 0)
          /\ sig["tkeep"] = (IF obs.shown = Len(axw.tdata) THEN axw.tkeep ELSE AxFullKeep)
    /\ axw.pc = "done" => nxt["tvalid"] = 0 /\ nxt["tlast"] = 0
    /\ (axw.pc = "done" /\ AxWrId \notin ran) => sig["tvalid"] = 0 /\ sig["tlast"] = 0

\* the bus has shown the final beat of three with a partial tkeep, and
\* write() has returned
C14_Witness ==
    /\ axw.pc = "done" /\ AxWrId \in ran
    /\ obs.shown = 3 /\ Len(axw.tdata) = 3
    /\ sig["tvalid"] = 1 /\ sig["tlast"] = 1 /\ sig["tkeep"] = 1 /\ axw.tkeep = 1

----------------------------------------------------------------------------
(* C20: write() is suspended in its gap only with insert_random_gaps set   *)
(* and behind an acknowledged beat that is not the final one, for one edge *)
(* at a time, with TVALID low on that edge; it returns on the edge that    *)
(* acknowledges the final beat.  The beat behind the gap may be the final  *)
(* beat.                                                                   *)
AxAcked == obs.shown > 0 /\ (~axw.has_tready \/ sig["tready"] = 1)

C20_Gaps ==
    /\ axw.pc = "gap" => axw.gaps /\ axw.i < Len(axw.tdata) - 1
    /\ (axw.pc = "gap" /\ AxWrId \in ran) => obs.shown = axw.i + 1 /\ AxAcked
    /\ (axw.pc = "gap" /\ AxWrId \notin ran) => sig["tvalid"] = 0 /\ obs.idle = 1
    /\ obs.idle <= 1
    /\ (AxAcked /\ obs.shown = Len(axw.tdata) /\ AxWrId \in ran) => axw.pc = "done"

\* the idle edge between the first and the second of three beats
C20_Witness ==
    /\ axw.pc = "gap" /\ AxWrId \notin ran
    /\ axw.i = 0 /\ Len(axw.tdata) = 3
    /\ sig["tvalid"] = 0 /\ obs.idle = 1

(* C20 as stated: moreover the beat behind a gap is never the final beat.  *)
C20_NotBeforeFinal ==
    /\ C20_Gaps
    /\ axw.pc = "gap" => axw.i + 1 < Len(axw.tdata) - 1

----------------------------------------------------------------------------
(* The wait loops of the drivers (SpecWait): the AXI4-Lite bench and the   *)
(* AXI4-Stream loopback, whichever the test runs.                          *)

WaitInit == LiteInit \/ AxisInit("axis")

WaitLite == bench \in {"writer", "reader"} /\ LiteNext

WaitAxis == bench = "axis" /\ AxisNext

WaitNext == WaitLite \/ WaitAxis

SpecWait == WaitInit /\ [][WaitNext]_vars

(* C15: a call suspended in a wait loop stays in it over every step taken  *)
(* while the awaited signal is low (awready, wready, bvalid, arready,      *)
(* rvalid, tready): no step makes it return or fail.  While a Lite call    *)
(* waits, access_active stays set, and a caller spinning on a set          *)
(* access_active keeps spinning.                                           *)
C15_Stays ==
    /\ \A c \in Callers :
         /\ (wcall[c].pc = "aw" /\ sig["awready"] = 0) => wcall'[c].pc = "aw"
         /\ (wcall[c].pc = "w" /\ sig["wready"] = 0) => wcall'[c].pc = "w"
         /\ (wcall[c].pc = "b" /\ sig["bvalid"] = 0) => wcall'[c].pc = "b"
         /\ wcall[c].pc \in {"aw", "w", "b"} => wlock /\ wlock'
         /\ (wcall[c].pc = "spin" /\ wlock) => wcall'[c].pc = "spin"
         /\ (rcall[c].pc = "ar" /\ sig["arready"] = 0) => rcall'[c].pc = "ar"
         /\ (rcall[c].pc = "r" /\ sig["rvalid"] = 0) => rcall'[c].pc = "r"
         /\ rcall[c].pc \in {"ar", "r"} => rlock /\ rlock'
         /\ (rcall[c].pc = "spin" /\ rlock) => rcall'[c].pc = "spin"
    /\ (axw.pc = "beat" /\ axw.has_tready /\ sig["tready"] = 0) => axw' = axw

C15_NoTimeout == [][C15_Stays]_vars

\* a write() has been resumed by an edge without awready and waits on, and a
\* second caller has been resumed and spins on
C15_Witness ==
    \E c1, c2 \in Callers :
       /\ wcall[c1].pc = "aw" /\ WrId(c1) \in ran
       /\ sig["awvalid"] = 1 /\ sig["awready"] = 0
       /\ wcall[c2].pc = "spin" /\ WrId(c2) \in ran
       /\ wlock

----------------------------------------------------------------------------
(* A fair AXI4-Lite bench (SpecLiteFair): every caller calls once (caller  *)
(* c passes address c, so address 0 is "has not called yet"), every        *)
(* suspended coroutine is resumed by every edge, the clock runs, and the   *)
(* slave does not leave an item presented to it unacknowledged for ever:   *)
(* if a valid (for the response, a ready) of the driver is high again and  *)
(* again, then again and again an edge shows it together with the slave's  *)
(* ready (valid).                                                          *)

LiteOnceWrite(c) == (wcall[c].pc = "idle" => wcall[c].addr = 0) /\ LiteWrite(c)

LiteOnceRead(c) == (rcall[c].pc = "idle" => rcall[c].addr = 0) /\ LiteRead(c)

LiteOnceNext == (\E c \in Callers : LiteOnceWrite(c) \/ LiteOnceRead(c)) \/ LiteTick

\* the handshakes: the driver's signal and the slave's
LiteHandshakes == {<<"awvalid", "awready">>, <<"wvalid", "wready">>, <<"bready", "bvalid">>,
                   <<"arvalid", "arready">>, <<"rready", "rvalid">>}

SpecLiteFair ==
    /\ LiteInit
    /\ [][LiteOnceNext]_vars
    /\ \A c \in Callers : WF_vars(LiteOnceWrite(c)) /\ WF_vars(LiteOnceRead(c))
    /\ WF_vars(LiteTick)
    /\ \A h \in LiteHandshakes : SF_vars(LiteTick /\ sig'[h[1]] = 1 /\ sig'[h[2]] = 1)

(* C17: with such a slave every caller's call returns.                     *)
LiteReturned(c) ==
    IF bench = "writer" THEN wcall[c].pc = "idle" /\ wcall[c].addr = c
                        ELSE rcall[c].pc = "idle" /\ rcall[c].addr = c

----------------------------------------------------------------------------
(* crc16 (crc.py).  Numbers are Python integers; the bit operations are    *)
(* computed bit by bit.                                                    *)

\* a ^ b
RECURSIVE Xor(_, _)
Xor(a, b) ==
    IF a = 0 THEN b ELSE IF b = 0 THEN a
    ELSE ((a + b) % 2) + 2 * Xor(a \div 2, b \div 2)

\* the CRC polynomial of line 40
Crc16Poly == 4129

\* v & 0x8000 is not zero
Bit15(v) == (v \div 32768) % 2 = 1

\* lines 38-43: j passes of the loop of _crc16_initial, [crc, c]
RECURSIVE Crc16Loop(_, _)
Crc16Loop(c, j) ==
    IF j = 0 THEN [crc |-> 0, c |-> c * 256]
    ELSE LET p == Crc16Loop(c, j - 1)
         IN  [crc |-> IF Bit15(Xor(p.crc, p.c)) THEN Xor(p.crc * 2, Crc16Poly) ELSE p.crc * 2,
              c |-> p.c * 2]

\* _crc16_initial(c)
Crc16Initial(c) == Crc16Loop(c, 8).crc

\* _crc16_tab
Crc16Tab == [i \in 0..255 |-> Crc16Initial(i)]

\* mutant: the table entry does not depend on the upper bits of the byte
Crc16UpdateLow(crc, c) ==
    Xor(crc * 256, Crc16Tab[Xor(crc \div 256, c % 16) % 256]) % 65536

\* _crc16_update(crc, c), c a byte
Crc16Update(crc, c) ==
    Xor(crc * 256, Crc16Tab[Xor(crc \div 256, c) % 256]) % 65536

\* the loop of lines 66-67 over the bytes s
RECURSIVE Crc16Bytes(_)
Crc16Bytes(s) ==
    IF Len(s) = 0 THEN 0
    ELSE Crc16Update(Crc16Bytes(SubSeq(s, 1, Len(s) - 1)), s[Len(s)])

\* crc16(i): the bytes of '%x' % i, padded to an even number of digits
crc16(i) == Crc16Bytes(ToBytes(i, (HexLen(i) + 1) \div 2))

(* Test bench of crc16 (SpecCrc): for a key of at most CrcKeyBits bits the *)
(* test computes crc16 of the key, once more of the key, and of the key    *)
(* with one of the bits 0..CrcKeyBits flipped.                             *)

CrcKeyBits == 12

\* key with bit b flipped
FlipBit(key, b) == IF (key \div Pow(2, b)) % 2 = 1 THEN key - Pow(2, b) ELSE key + Pow(2, b)

CrcInit ==
    /\ sig = <<>> /\ nxt = <<>> /\ ran = {}
    /\ bench = "crc"
    /\ wlock = FALSE /\ rlock = FALSE
    /\ wcall = [c \in Callers |-> Off] /\ rcall = [c \in Callers |-> Off]
    /\ mem = Off /\ store = <<>>
    /\ axw = Off /\ axw2 = Off /\ axr = Off
    /\ \E key \in 0..(Pow(2, CrcKeyBits) - 1) :
         obs = [key |-> key, bit |-> -1, crc |-> 0, again |-> 0, flipped |-> 0]

CrcRun ==
    /\ obs.bit = -1
    /\ \E b \in 0..CrcKeyBits :
         obs' = [key |-> obs.key, bit |-> b, crc |-> crc16(obs.key),
                 again |-> crc16(obs.key), flipped |-> crc16(FlipBit(obs.key, b))]
    /\ UNCHANGED <<sig, nxt, ran, bench, liteVars, memVars, axisVars>>

SpecCrc == CrcInit /\ [][CrcRun]_vars

(* C19: crc16 of the same key is the same value, a 16-bit number, and      *)
(* crc16 of the key with one bit flipped is a different value.             *)
C19_BitFlip ==
    obs.bit # -1 =>
       /\ obs.crc = obs.again
       /\ obs.crc \in 0..65535
       /\ obs.flipped # obs.crc

\* bit 8 of the one-byte key 0x01 was flipped: the second key has two bytes
C19_Witness ==
    /\ obs.key = 1 /\ obs.bit = 8
    /\ obs.crc = 4129
    /\ obs.flipped = 8976

----------------------------------------------------------------------------
(* A fair bench of Mem.main (SpecMemFair).  The master raises ARVALID and  *)
(* AWVALID when it likes and holds each, with its address, length and      *)
(* size, until main() has taken it; it shows WVALID, RREADY and BREADY on  *)
(* the edges at which main() samples them, each of them eventually; WLAST  *)
(* is high exactly on the beat with index awlen; WDATA fits the beat size  *)
(* or has one hexadecimal digit more than the beat has.                    *)
(* Its bursts are of MaxLen + 1 one-byte beats and start at the first or   *)
(* at the last byte of the store: the latter leave the store.              *)
(* main() is resumed by every edge and the clock runs.                     *)

NoRequest == [v |-> 0, addr |-> 0, len |-> 0, size |-> 0]

Requests == {[v |-> 1, addr |-> a, len |-> MaxLen, size |-> 0] :
               a \in {MemOffset, MemOffset + Len(store) - 1}}

\* what the master shows on an address channel at the next edge: held is the
\* request it showed at this edge, taken whether main() took it at this edge
MasterHolds(held, taken) ==
    IF held.v = 1 /\ ~taken THEN {held} ELSE {NoRequest} \cup Requests

\* the WDATA of a beat of n bytes: one that fits and 0x1 00..00 01
WDataFair(n) == {FromBytes([k \in 1..n |-> k]), Pow(256, n) + 1}

MasterHeldEdge ==
    /\ mem.pc # "failed" => MemId \in ran
    /\ \E ar \in MasterHolds([v |-> sig["arvalid"], addr |-> sig["araddr"],
                              len |-> sig["arlen"], size |-> sig["arsize"]],
                             obs.pre.pc = "araccept"),
          aw \in MasterHolds([v |-> sig["awvalid"], addr |-> sig["awaddr"],
                              len |-> sig["awlen"], size |-> sig["awsize"]],
                             obs.pre.pc = "awaccept"),
          rr \in MasterBit("rbeat"), wv \in MasterBit("wbeat"), br \in MasterBit("bresp"),
          wd \in WDataFair(Pow(2, mem.size)) :
         sig' = Puts(nxt, [arvalid |-> ar.v, araddr |-> ar.addr, arlen |-> ar.len,
                           arsize |-> ar.size,
                           awvalid |-> aw.v, awaddr |-> aw.addr, awlen |-> aw.len,
                           awsize |-> aw.size,
                           rready |-> rr, bready |-> br, wvalid |-> wv,
                           wdata |-> IF wv = 1 THEN wd ELSE 0,
                           wlast |-> IF wv = 1 /\ mem.i = mem.len THEN 1 ELSE 0])
    /\ nxt' = sig'
    /\ ran' = {}
    /\ UNCHANGED <<bench, liteVars, memVars, axisVars>>

MasterFairTick ==
    /\ MasterHeldEdge
    /\ obs' = [obs EXCEPT !.pre = mem]

MemFairRun ==
    /\ \E n \in MemDraws : MemStep(n)
    /\ UNCHANGED <<sig, bench, liteVars, axisVars, obs>>

MemFairNext == MemFairRun \/ MasterFairTick

SpecMemFair ==
    /\ MemInit(MemSize, FALSE)
    /\ [][MemFairNext]_vars
    /\ WF_vars(MemFairRun) /\ WF_vars(MasterFairTick)
    /\ \A o \in {"wvalid", "rready", "bready"} : SF_vars(MasterFairTick /\ sig'[o] = 1)

\* the state of the state machine main() is in
MemPhase(m) ==
    CASE m.pc = "idle" -> "Idle"
      [] m.pc = "araccept" \/ (m.pc = "wait" /\ m.after = "arready") -> "ReadAddrAccept"
      [] m.pc = "rbeat" \/ (m.pc = "wait" /\ m.after \in {"rburst", "rnext"}) -> "ReadBurst"
      [] m.pc = "awaccept" \/ (m.pc = "wait" /\ m.after = "awready") -> "WriteAddrAccept"
      [] m.pc = "wbeat" \/ (m.pc = "wait" /\ m.after \in {"wburst", "wnext"}) -> "WriteBurst"
      [] m.pc = "bresp" -> "WriteResponse"
      [] OTHER -> "Ended"

MemTransitions ==
    {<<"Idle", "ReadAddrAccept">>, <<"ReadAddrAccept", "ReadBurst">>, <<"ReadBurst", "Idle">>,
     <<"Idle", "WriteAddrAccept">>, <<"WriteAddrAccept", "WriteBurst">>,
     <<"WriteBurst", "WriteResponse">>, <<"WriteResponse", "Idle">>}

\* the burst main() serves does not lie in the store
MemBurstOutside ==
    \/ mem.addr < MemOffset
    \/ mem.addr + (mem.len + 1) * Pow(2, mem.size) > MemOffset + Len(store)

MemMoves(allowed) ==
    MemPhase(mem') = MemPhase(mem) \/ <<MemPhase(mem), MemPhase(mem')>> \in allowed

\* WDATA has more bytes than the beat main() awaits
MemDataTooWide == sig["wdata"] >= Pow(256, Pow(2, mem.size))

\* main() is ended only by an exception raised for a beat: the bounds
\* assertion for a burst that leaves the store, or the TypeError of
\* decode('hex') for a write beat whose WDATA is too wide
MemEndsByBeat ==
    (mem.pc # "failed" /\ mem'.pc = "failed") =>
        \/ mem'.err = "bounds" /\ MemBurstOutside'
        \/ mem'.err = "decode" /\ mem.pc = "wbeat" /\ MemDataTooWide

(* C18: main() only takes the transitions of the state machine, or is      *)
(* ended by an exception from ReadAddrAccept, ReadBurst or WriteBurst; it  *)
(* is ended only for a burst that leaves the store or a WDATA too wide     *)
(* for the beat; while it is not ended it is in Idle again and again.      *)
C18_StateMachine ==
    /\ [][MemMoves(MemTransitions \cup {<<"ReadAddrAccept", "Ended">>,
                                        <<"ReadBurst", "Ended">>,
                                        <<"WriteBurst", "Ended">>})]_vars
    /\ [][MemEndsByBeat]_vars
    /\ []<>(mem.pc \in {"idle", "failed"})

\* main() is back in Idle from the response of a two-beat write burst while
\* a read address is held
C18_Witness ==
    /\ mem.pc = "idle" /\ obs.pre.pc = "bresp" /\ obs.pre.len = 1
    /\ sig["arvalid"] = 1 /\ sig["awvalid"] = 1

(* C18 as stated: main() only takes the transitions of the state machine   *)
(* and is in Idle again and again.                                         *)
C18_AlwaysToIdle ==
    /\ [][MemMoves(MemTransitions)]_vars
    /\ []<>(mem.pc = "idle")

----------------------------------------------------------------------------
\* an edge of the loopback without TREADY shows a beat other than the one
\* the edge before showed
AxOneEdgePerBeat ==
    (obs'.edges = obs.edges + 1 /\ obs'.shown # 0) => obs'.shown # obs.shown

(* C21: without a TREADY signal write() is never held up: every beat is    *)
(* on the bus for one edge, and a write() of L beats that went through g   *)
(* gaps returns at edge L + g after the call.                              *)
C21_NeverBlocks ==
    /\ []((~axw.has_tready /\ axw.pc = "done") =>
            obs.edges = Len(axw.tdata) + obs.gapsN)
    /\ [][AxOneEdgePerBeat]_vars

\* three beats and two gaps: write() returned at the fifth edge
C21_Witness ==
    /\ ~axw.has_tready /\ axw.pc = "done"
    /\ Len(axw.tdata) = 3 /\ obs.gapsN = 2 /\ obs.edges = 5

----------------------------------------------------------------------------
(* C22: the list of read() grows by the TDATA of an edge exactly when the  *)
(* edge has TVALID high and TREADY high or absent; read() returns in the   *)
(* step that captured the first such beat with TLAST high, its tkeep is    *)
(* the TKEEP of that edge; its tuser has the length of tdata when TUSER    *)
(* exists and is None otherwise.                                           *)
C22_Captures ==
    /\ (axr.pc # "run" \/ AxRdId \in ran) => axr.tdata = obs.seen
    /\ (axr.pc = "run" /\ AxRdId \notin ran) =>
          (obs.seen = axr.tdata \/ \E d \in AxWords : obs.seen = Append(axr.tdata, d))
    /\ axr.pc = "done" =>
          /\ obs.lastAt = Len(axr.tdata)
          /\ axr.tkeep = obs.keepAt
          /\ IF axr.has_tuser
             THEN ~axr.none /\ Len(axr.tuser) = Len(axr.tdata)
             ELSE axr.none
    /\ obs.lastAt > 0 => (axr.pc = "done" \/ (axr.pc = "run" /\ AxRdId \notin ran))

\* read() returned two beats and a partial tkeep; the edge after its return
\* shows a beat while TREADY is low
C22_Witness ==
    /\ axr.pc = "done" /\ axr.has_tready /\ axr.has_tuser
    /\ Len(axr.tdata) = 2 /\ axr.tkeep = 1
    /\ sig["tvalid"] = 1 /\ sig["tready"] = 0

----------------------------------------------------------------------------
\* the lock of the reader is released by the step that the edge after the
\* sampled RVALID resumes
RdReleasedAfterResponse ==
    (rlock /\ ~rlock') =>
        \E c \in Callers : rcall[c].pc = "rel" /\ RdId(c) \notin ran /\ obs.resp

(* C23: a read() call has ARVALID high up to and including the first edge  *)
(* with ARREADY high and low from the next edge on, so there is one        *)
(* address handshake; RREADY is high on every edge from the call to the    *)
(* first edge after the address handshake with RVALID high and low after   *)
(* it; the call returns the RDATA of that edge; the lock is released by    *)
(* the next edge.                                                          *)
C23_ReadOnce ==
    /\ [](bench = "reader" =>
            /\ obs.open => obs.hsA <= 1
            /\ (obs.ret /\ ~obs.open) => obs.hsA = 1
            /\ \A c \in Callers :
                 /\ (rcall[c].pc = "ar" /\ RdId(c) \notin ran) =>
                        sig["arvalid"] = 1 /\ sig["rready"] = 1 /\ obs.hsA = sig["arready"]
                 /\ (rcall[c].pc = "ar" /\ RdId(c) \in ran) => obs.hsA = 0
                 /\ (rcall[c].pc = "r" /\ RdId(c) \notin ran) =>
                        sig["arvalid"] = 0 /\ sig["rready"] = 1
                 /\ (rcall[c].pc = "r" /\ RdId(c) \in ran) => obs.rd = -1
                 /\ rcall[c].pc = "rel" => rcall[c].data = obs.rd /\ obs.rd # -1
                 /\ (rcall[c].pc = "rel" /\ RdId(c) \notin ran) =>
                        sig["arvalid"] = 0 /\ sig["rready"] = 0)
    /\ [][RdReleasedAfterResponse]_vars

\* a read() sampled RDATA 1 on an edge after its address handshake, RVALID
\* having been high on the handshake edge as well, and waits for the edge
\* that lets it return
C23_Witness ==
    /\ bench = "reader"
    /\ \E c \in Callers : rcall[c].pc = "rel" /\ rcall[c].data = 1 /\ RdId(c) \notin ran
    /\ obs.hsA = 1 /\ obs.hsD = 2

----------------------------------------------------------------------------
\* the number whose bits 7..0 are the store byte at address a, bits 15..8
\* the byte at a + 1, and so on for n bytes
RECURSIVE LowByteFirst(_, _)
LowByteFirst(a, n) ==
    IF n = 0 THEN 0 ELSE store[a - MemOffset + 1] + 256 * LowByteFirst(a + 1, n - 1)

\* the burst p lies in the store
InStore(p) ==
    /\ p.addr >= MemOffset
    /\ p.addr + (p.len + 1) * Pow(2, p.size) <= MemOffset + Len(store)

\* main() is between two beats of a read burst
BetweenBeats(p) == p.pc = "wait" /\ p.after = "rnext"

(* C24: an edge that finds main() presenting beat i of a read burst shows  *)
(* RVALID high, in RDATA the 2^arsize store bytes from address             *)
(* araddr + i * 2^arsize on, the lowest address in bits 7..0, and RLAST    *)
(* high exactly for i = arlen; the beat stays until an edge with RREADY    *)
(* high; the beats come with the indices 0, 1, .., arlen, and after beat   *)
(* arlen main() is idle; a burst that lies in the store does not fail.     *)
C24_ReadBurst ==
    LET p == obs.pre
        n == Pow(2, p.size)
    IN  /\ p.pc = "rbeat" =>
              /\ p.i \in 0..p.len
              /\ sig["rvalid"] = 1
              /\ sig["rdata"] = LowByteFirst(p.addr + p.i * n, n)
              /\ sig["rlast"] = (IF p.i = p.len THEN 1 ELSE 0)
        /\ (MemId \in ran /\ p.pc = "rbeat" /\ sig["rready"] = 0) =>
              mem = p /\ nxt["rvalid"] = 1 /\ nxt["rdata"] = sig["rdata"]
        /\ (MemId \in ran /\ p.pc = "rbeat" /\ sig["rready"] = 1) =>
              IF p.i = p.len
              THEN mem.pc = "idle" /\ nxt["rvalid"] = 0
              ELSE \/ mem.pc = "rbeat" /\ mem.i = p.i + 1
                   \/ BetweenBeats(mem) /\ mem.i = p.i /\ nxt["rvalid"] = 0
                   \/ mem.pc = "failed" /\ ~InStore(p)
        /\ (MemId \in ran /\ mem.pc = "rbeat" /\ p.pc # "rbeat") =>
              mem.i = (IF BetweenBeats(p) THEN p.i + 1 ELSE 0)
        /\ (MemId \in ran /\ mem.pc = "failed" /\ mem.err = "bounds"
              /\ (p.pc = "rbeat" \/ BetweenBeats(p))) => ~InStore(p)

\* the master takes the second, last beat of a burst of two-byte beats from
\* the preloaded store: bytes 0x30 and 0x40
C24_Witness ==
    /\ obs.pre.pc = "rbeat" /\ sig["rready"] = 1
    /\ obs.pre.size = 1 /\ obs.pre.len = 1 /\ obs.pre.i = 1 /\ obs.pre.addr = MemOffset
    /\ sig["rdata"] = 48 + 256 * 64 /\ sig["rlast"] = 1
    /\ obs.writes = 0

----------------------------------------------------------------------------
(* The delay bench of Mem.main (SpecMemDelay): the master of the fair      *)
(* bench, without the fairness; the monitor counts edges.                  *)

\* the edge that arrives shows a pending address to main() in its request
\* loop, or completes an address handshake
MemDelayStart(s) ==
    \/ mem.pc = "idle" /\ (s["arvalid"] = 1 \/ s["awvalid"] = 1)
    \/ mem.pc = "araccept" /\ s["arvalid"] = 1 /\ s["arready"] = 1
    \/ mem.pc = "awaccept" /\ s["awvalid"] = 1 /\ s["awready"] = 1

MemInReadBurst == mem.pc = "rbeat" \/ (mem.pc = "wait" /\ mem.after = "rnext")

MemInWriteBurst == mem.pc = "wbeat" \/ (mem.pc = "wait" /\ mem.after = "wnext")

MemObsDelay(s) ==
    [obs EXCEPT !.pre = mem,
                !.since = IF MemDelayStart(s) THEN 0 ELSE Min(AcceptDelayMax + 1, @ + 1),
                !.rlow = IF MemInReadBurst /\ s["rvalid"] = 0 THEN @ + 1 ELSE 0,
                !.wlow = IF MemInWriteBurst /\ s["wready"] = 0 THEN @ + 1 ELSE 0]

MasterDelayTick ==
    /\ MasterHeldEdge
    /\ obs' = MemObsDelay(sig')

MemDelayNext == MemFairRun \/ MasterDelayTick

SpecMemDelay == MemInit(MemSize, FALSE) /\ [][MemDelayNext]_vars

\* main() has been resumed by the current edge and has come from the delay
\* named k, or from the position before it without a delay, to position q
MemDelayOver(k, from, q) ==
    /\ MemId \in ran /\ mem.pc = q
    /\ \/ obs.pre.pc = "wait" /\ obs.pre.after = k
       \/ obs.pre.pc = from

(* C25: main() drives ARREADY or AWREADY high in the step of an edge at    *)
(* most 10 edges after the edge that showed it the pending address, RVALID *)
(* of the first beat or WREADY for the first beat in the step of an edge   *)
(* at most 10 edges after the edge of the address handshake; in a read     *)
(* burst at most 5 edges in a row show RVALID low, in a write burst at     *)
(* most 5 edges in a row show WREADY low.                                  *)
C25_BoundedDelays ==
    /\ (MemId \in ran /\ mem.pc = "wait" /\ mem.after \in {"arready", "awready"}) =>
          obs.since < AcceptDelayMax
    /\ (MemId \in ran /\ mem.pc = "wait" /\ mem.after \in {"rburst", "wburst"}) =>
          obs.since < BurstDelayMax
    /\ MemDelayOver("arready", "idle", "araccept") =>
          nxt["arready"] = 1 /\ obs.since <= AcceptDelayMax
    /\ MemDelayOver("awready", "idle", "awaccept") =>
          nxt["awready"] = 1 /\ obs.since <= AcceptDelayMax
    /\ MemDelayOver("rburst", "araccept", "rbeat") =>
          nxt["rvalid"] = 1 /\ obs.since <= BurstDelayMax
    /\ MemDelayOver("wburst", "awaccept", "wbeat") =>
          nxt["wready"] = 1 /\ obs.since <= BurstDelayMax
    /\ obs.rlow <= ReadGapMax
    /\ obs.wlow <= WriteStallMax

\* the second beat of a read burst is driven after the longest gap, more
\* than AcceptDelayMax edges after the address handshake
C25_Witness ==
    /\ obs.rlow = ReadGapMax
    /\ MemId \in ran /\ mem.pc = "rbeat" /\ mem.i = 1
    /\ obs.since = AcceptDelayMax + 1

----------------------------------------------------------------------------
(* swp_byte_order (tb.py) and the round trips through the store            *)
(* (SpecSwap): a test calls write and read, the reverse-byte-order         *)
(* variants and swp_byte_order with one address in the store, a size and   *)
(* a value that fits the size.                                             *)

\* mutant: the hex string is not filled to 2 * bytelen digits
SwpByteOrderNoFill(data, bytelen) ==
    FromBytes(Reversed(ToBytes(data, (HexLen(data) + (HexLen(data) % 2)) \div 2)))

\* lines 106-108: '%x', a leading 0 for an odd number of digits, zfill to
\* 2 * bytelen digits, decode, reverse the bytes, encode, int
SwpByteOrder(data, bytelen) ==
    LET even == HexLen(data) + (HexLen(data) % 2)
        digits == IF even < 2 * bytelen THEN 2 * bytelen ELSE even
    IN  FromBytes(Reversed(ToBytes(data, digits \div 2)))

\* the bytes the values of this bench are made of
SwapBytes == {0, 1, 16, 127}

SwapValues(n) == {FromBytes(b) : b \in [1..n -> SwapBytes]}

SwapInit ==
    /\ sig = <<>> /\ nxt = <<>> /\ ran = {}
    /\ bench = "swap"
    /\ wlock = FALSE /\ rlock = FALSE
    /\ wcall = [c \in Callers |-> Off] /\ rcall = [c \in Callers |-> Off]
    /\ mem = Off
    /\ store = [k \in 1..CodecMemSize |-> 16 * k]     \* preloaded by the test
    /\ axw = Off /\ axw2 = Off /\ axr = Off
    /\ \E n \in 1..CodecMemSize :
         \E a \in MemOffset..(MemOffset + CodecMemSize - n), v \in SwapValues(n) :
           obs = [addr |-> a, size |-> n, v |-> v, done |-> FALSE, ok |-> FALSE,
                  rd |-> 0, rdRev |-> 0, swpRd |-> 0, wrRevRdRev |-> 0, swp |-> 0, swp2 |-> 0]

\* write(a, v, n); read(a, n); read_reverse_byte_order(a, n);
\* swp_byte_order(read(a, n), n); write_reverse_byte_order(a, v, n);
\* read_reverse_byte_order(a, n); swp_byte_order(swp_byte_order(v, n), n)
SwapRun ==
    /\ ~obs.done
    /\ LET a == obs.addr
           n == obs.size
           w == MemWrite(MemOffset, store, a, obs.v, n)
           rd == MemRead(MemOffset, w.data, a, n)
           rdRev == MemReadReverse(MemOffset, w.data, a, n)
           wr == MemWriteReverse(MemOffset, w.data, a, obs.v, n)
           rr == MemReadReverse(MemOffset, wr.data, a, n)
       IN  /\ store' = wr.data
           /\ obs' = [obs EXCEPT !.done = TRUE,
                                 !.ok = w.ok /\ rd.ok /\ rdRev.ok /\ wr.ok /\ rr.ok,
                                 !.rd = rd.val, !.rdRev = rdRev.val,
                                 !.swpRd = SwpByteOrder(rd.val, n),
                                 !.wrRevRdRev = rr.val,
                                 !.swp = SwpByteOrder(obs.v, n),
                                 !.swp2 = SwpByteOrder(SwpByteOrder(obs.v, n), n)]
    /\ UNCHANGED <<sig, nxt, ran, bench, liteVars, mem, axisVars>>

SpecSwap == SwapInit /\ [][SwapRun]_vars

----------------------------------------------------------------------------
(* C28: a write or write_reverse_byte_order that returned has left the     *)
(* number of bytes of the store and every byte outside the indices         *)
(* addr - offset .. addr - offset + size - 1 as they were.                 *)
C28_FrameEffect ==
    (obs.op \in {"write", "write_reverse"} /\ obs.ok) =>
       /\ Len(store) = Len(obs.before)
       /\ \A k \in DOMAIN obs.before :
            (k - 1 < obs.addr - MemOffset \/ k - 1 >= obs.addr - MemOffset + obs.size) =>
               (k \in DOMAIN store /\ store[k] = obs.before[k])

----------------------------------------------------------------------------
\* the bytes of beat i of the burst m lie in the store
BeatInStore(m, i) ==
    /\ m.addr + i * Pow(2, m.size) >= MemOffset
    /\ m.addr + (i + 1) * Pow(2, m.size) <= MemOffset + Len(store)

\* main() has ended with the bounds assertion in the current time step
MemBoundsFailure ==
    MemId \in ran /\ mem.pc = "failed" /\ mem.err = "bounds" /\ obs.pre.pc # "failed"

\* the index of the beat main() was about to present or has taken
MemBeatAtFailure ==
    IF obs.pre.pc = "rbeat" \/ BetweenBeats(obs.pre) THEN obs.pre.i + 1
    ELSE IF obs.pre.pc = "wbeat" THEN obs.pre.i
    ELSE 0

(* C27: main() presents a read beat exactly when its bytes lie in the      *)
(* store and writes a taken write beat exactly when its bytes lie in the   *)
(* store; it ends with the bounds assertion at the first beat of a burst   *)
(* that does not, after the address was accepted and all beats before it   *)
(* were transferred, and that step leaves the store as it was.             *)
C27_PerBeatBounds ==
    /\ [](/\ mem.pc = "rbeat" => BeatInStore(mem, mem.i)
          /\ (MemId \in ran /\ MemTook /\ BeatInStore(obs.pre, obs.pre.i)) =>
                /\ mem.err # "bounds"
                /\ LowByteFirst(obs.pre.addr + obs.pre.i * Pow(2, obs.pre.size),
                                Pow(2, obs.pre.size)) = sig["wdata"]
          /\ (MemId \in ran /\ MemTook /\ ~BeatInStore(obs.pre, obs.pre.i)) =>
                MemBoundsFailure
          /\ MemBoundsFailure =>
                /\ ~BeatInStore(mem, MemBeatAtFailure)
                /\ \A k \in 0..(MemBeatAtFailure - 1) : BeatInStore(mem, k)
                /\ obs.pre.pc \in {"araccept", "rbeat", "wbeat"} \/
                   (obs.pre.pc = "wait" /\ obs.pre.after \in {"rburst", "rnext"}))
    /\ [][(mem.pc # "failed" /\ mem'.pc = "failed" /\ mem'.err = "bounds") =>
             store' = store]_vars

\* a write burst of two one-byte beats at the last byte of the store: the
\* first beat was written, the second ends main()
C27_Witness ==
    /\ MemBoundsFailure
    /\ obs.pre.pc = "wbeat" /\ obs.pre.i = 1 /\ obs.pre.size = 0
    /\ obs.pre.addr = MemOffset + DataMemSize - 1
    /\ store[DataMemSize] = 2 /\ store[1] = 16

----------------------------------------------------------------------------
(* C29: the step in which the WLAST assertion fails has written the beat   *)
(* to the store; from then on main() is not resumed, WREADY stays high,    *)
(* BVALID, ARREADY and AWREADY stay low.                                   *)
C29_HaltsAfterWrite ==
    /\ []((MemId \in ran /\ MemTook /\ mem.err = "wlast") =>
            LowByteFirst(obs.pre.addr + obs.pre.i * Pow(2, obs.pre.size),
                         Pow(2, obs.pre.size)) = sig["wdata"])
    /\ []((mem.pc = "failed" /\ mem.err = "wlast") =>
            /\ nxt["wready"] = 1 /\ (obs.pre.pc = "failed" => sig["wready"] = 1)
            /\ sig["bvalid"] = 0 /\ nxt["bvalid"] = 0
            /\ sig["arready"] = 0 /\ nxt["arready"] = 0
            /\ sig["awready"] = 0 /\ nxt["awready"] = 0)
    /\ [][mem.pc = "failed" => mem' = mem /\ store' = store]_vars

\* an edge after the failure of the first beat of a two-beat burst shows a
\* read and a write address and data, WREADY being high
C29_Witness ==
    /\ mem.pc = "failed" /\ mem.err = "wlast" /\ mem.i = 0 /\ mem.len = 1
    /\ obs.pre.pc = "failed"
    /\ sig["wready"] = 1 /\ sig["arvalid"] = 1 /\ sig["awvalid"] = 1
    /\ store[mem.addr - MemOffset + 1] # 0

----------------------------------------------------------------------------
(* Back-to-back transfers in the loopback (SpecAxisB2B): the test calls    *)
(* write() and, in the time step in which it returns, write() again; the   *)
(* reader's coroutine calls read() and, in the time step in which it       *)
(* returns, read() again.  TREADY takes any value on every edge.           *)

NoTransfer == [tdata |-> <<>>, tkeep |-> 0, tuser |-> <<>>]

\* the transfers the test writes
B2BTransfers(hasTuser) ==
    {[tdata |-> d, tkeep |-> k, tuser |-> u] :
        d \in AxLists(1, MaxBeats - 1), k \in {1, AxFullKeep},
        u \in IF hasTuser THEN {<<>>, <<1>>} ELSE {<<>>}}

\* what read() returns for the written transfer t
AxReturned(t, hasTuser) ==
    [tdata |-> t.tdata, tkeep |-> t.tkeep,
     tuser |-> IF hasTuser THEN AxPadded(t.tuser, Len(t.tdata)) ELSE <<>>]

B2BInit ==
    /\ AxisStart("b2b")
    /\ obs = [writes |-> 0,          \* calls of write()
              first |-> NoTransfer,  \* the arguments of the first
              reads |-> 0,           \* calls of read() that have returned and were followed
                                     \* by the next call
              got |-> NoTransfer,    \* what the first read() returned
              again |-> FALSE,       \* write() was called again in this time step
              fresh |-> FALSE]       \* the current edge is the first after that call

B2BWrite ==
    /\ \/ /\ axr.pc # "idle" /\ axw.pc = "idle"
          /\ \E t \in B2BTransfers(axw.has_tuser), gaps \in BOOLEAN :
               /\ AxWrCall(t.tdata, t.tkeep, t.tuser, gaps)
               /\ obs' = [obs EXCEPT !.writes = 1, !.first = t]
       \/ /\ \E g \in BOOLEAN : AxWrStep(g)
          /\ UNCHANGED obs
       \/ /\ axw.pc = "done" /\ obs.writes = 1
          /\ \E t \in B2BTransfers(axw.has_tuser) :
               LET r == AxWrBegin(axw, t.tdata, t.tkeep, t.tuser, axw.gaps)
               IN  axw' = r.w /\ nxt' = r.nxt
          /\ obs' = [obs EXCEPT !.writes = 2, !.again = TRUE]
          /\ UNCHANGED ran
    /\ UNCHANGED <<sig, bench, liteVars, memVars, axw2, axr>>

B2BRead ==
    /\ \/ (AxRdCall \/ AxRdStep) /\ UNCHANGED obs
       \/ /\ axr.pc = "done" /\ obs.reads = 0
          /\ obs' = [obs EXCEPT !.reads = 1,
                                !.got = [tdata |-> axr.tdata, tkeep |-> axr.tkeep,
                                         tuser |-> axr.tuser]]
          /\ axr' = [axr EXCEPT !.pc = "run", !.tdata = <<>>, !.tuser = <<>>]
          /\ UNCHANGED <<nxt, ran>>
    /\ UNCHANGED <<sig, bench, liteVars, memVars, axw, axw2>>

\* the next rising edge; the second calls have been made in the time step
\* in which the first returned
B2BTick ==
    /\ AxisAllRan
    /\ ~(axw.pc = "done" /\ obs.writes = 1)
    /\ ~(axr.pc = "done" /\ obs.reads = 0)
    /\ \E r \in IF axr.has_tready THEN Bit ELSE {0} : sig' = Puts(nxt, [tready |-> r])
    /\ nxt' = sig'
    /\ ran' = {}
    /\ obs' = [obs EXCEPT !.again = FALSE, !.fresh = obs.again]
    /\ UNCHANGED <<bench, liteVars, memVars, axisVars>>

B2BNext == B2BWrite \/ B2BRead \/ B2BTick

SpecAxisB2B == B2BInit /\ [][B2BNext]_vars

\* what read() has returned is the written transfer t
AxReadIs(t) ==
    [tdata |-> axr.tdata, tkeep |-> axr.tkeep, tuser |-> axr.tuser] =
        AxReturned(t, axr.has_tuser)

(* C30: the edge after the one on which the first write() returned shows   *)
(* the first beat of the second transfer (TVALID high, its TLAST and       *)
(* TKEEP); the first read() returns the first transfer and the second,     *)
(* called in the time step of that return, captures that beat when TREADY  *)
(* lets it and returns the second transfer; no read() fails.               *)
C30_BackToBack ==
    /\ obs.fresh =>
          /\ sig["tvalid"] = 1 /\ sig["tdata"] = axw.tdata[1]
          /\ sig["tlast"] = (IF Len(axw.tdata) = 1 THEN 1 ELSE 0)
          /\ sig["tkeep"] = (IF Len(axw.tdata) = 1 THEN axw.tkeep ELSE AxFullKeep)
          /\ obs.reads = 1
          /\ (AxRdId \in ran /\ AxBeatOnBus(axr.has_tready, sig)) =>
                axr.tdata = <<axw.tdata[1]>>
    /\ obs.reads = 1 => obs.got = AxReturned(obs.first, axr.has_tuser)
    /\ (axr.pc = "done" /\ obs.reads = 0) => AxReadIs(obs.first)
    /\ (axr.pc = "done" /\ obs.reads = 1) =>
          /\ obs.writes = 2 /\ AxReadIs(axw)
          /\ axw.pc = "done" \/ AxWrId \notin ran
    /\ (axw.pc = "done" /\ obs.writes = 2 /\ AxRdId \in ran) =>
          axr.pc = "done" /\ obs.reads = 1
    /\ axr.pc # "failed"

\* two transfers of two beats each came back, the second with another
\* final tkeep and a tuser list, after TREADY had been low on the first edge
\* of the second transfer
C30_Witness ==
    /\ axr.pc = "done" /\ obs.reads = 1 /\ axr.has_tready /\ axr.has_tuser
    /\ obs.got.tdata = <<1, 2>> /\ obs.got.tkeep = 1 /\ obs.got.tuser = <<0, 0>>
    /\ axr.tdata = <<2, 1>> /\ axr.tkeep = AxFullKeep /\ axr.tuser = <<1, 0>>
    /\ axw.gaps

----------------------------------------------------------------------------
(* Outputs of main() against its position (SpecMem).  The values compared  *)
(* are the driven ones (nxt): what main() has last written to each signal, *)
(* which is what the next edge shows.                                      *)

MemOutputs == {"arready", "awready", "rvalid", "wready", "bvalid"}

\* the statement with RLAST tied to RVALID, for main() not ended
C31_AsStated ==
    mem.pc # "failed" =>
       /\ nxt["rvalid"] = 1 => mem.pc = "rbeat"
       /\ nxt["wready"] = 1 => mem.pc = "wbeat"
       /\ nxt["bvalid"] = 1 => mem.pc = "bresp"
       /\ nxt["rlast"] = 1 => nxt["rvalid"] = 1
       /\ mem.pc = "idle" => \A o \in MemOutputs : nxt[o] = 0

\* RLAST is written in lines 214-217 only
MemRlastWritten == nxt'["rlast"] # nxt["rlast"] => (mem'.pc = "rbeat" /\ MemId \in ran')

(* C31: RVALID is high exactly while a read beat is presented, BVALID      *)
(* exactly in the write-response state, ARREADY and AWREADY exactly while  *)
(* the address is awaited; WREADY is high while a write beat is awaited    *)
(* and, besides, only after main() has ended; all five are low when the    *)
(* responder is idle.  While RVALID is high RLAST is high exactly on the   *)
(* final beat of the burst; RLAST changes only in a step that presents a   *)
(* beat, so it stays high, RVALID being low, after a read burst.           *)
C31_OutputsAgree ==
    /\ [](/\ nxt["rvalid"] = 1 <=> mem.pc = "rbeat"
          /\ nxt["wready"] = 1 => mem.pc \in {"wbeat", "failed"}
          /\ mem.pc = "wbeat" => nxt["wready"] = 1
          /\ nxt["bvalid"] = 1 <=> mem.pc = "bresp"
          /\ nxt["arready"] = 1 <=> mem.pc = "araccept"
          /\ nxt["awready"] = 1 <=> mem.pc = "awaccept"
          /\ nxt["rvalid"] = 1 => (nxt["rlast"] = 1 <=> mem.i = mem.len)
          /\ mem.pc = "idle" => \A o \in MemOutputs : nxt[o] = 0)
    /\ [][MemRlastWritten]_vars

\* the step that took the final beat of a two-beat read burst: main() is
\* idle, RVALID has been driven low, RLAST has not
C31_Witness ==
    /\ mem.pc = "idle" /\ MemId \in ran
    /\ obs.pre.pc = "rbeat" /\ obs.pre.i = 1 /\ obs.pre.len = 1
    /\ sig["rvalid"] = 1 /\ sig["rready"] = 1 /\ sig["rlast"] = 1
    /\ nxt["rvalid"] = 0 /\ nxt["rlast"] = 1
    /\ \A o \in MemOutputs : nxt[o] = 0

====
